---- MODULE Spec2Model ----
(***************************************************************************)
(* Ship of Theseus: a model of the analysis core.                          *)
(*                                                                         *)
(*   - CalculateSimilarity / IsOriginal          (similarity.go)           *)
(*   - findSimilarLineInRange, TraceLineHistory,                           *)
(*     TraceFileLines                            (history.go)              *)
(*   - analyzeFile, processFilesParallel, worker,                          *)
(*     aggregateResults                          (analyzer.go)             *)
(*   - GenerateHistoricalSnapshots,                                        *)
(*     calculateChurnFactor,                                               *)
(*     AddSnapshotsToAnalysis                    (similarity.go)           *)
(*                                                                         *)
(* float64 values of the analysis (similarities, their sums and means) are *)
(* modelled bit-exactly: a non-negative float64 is the natural number      *)
(* value * 2^60, kept as six base-4096 limbs, and every operation rounds   *)
(* its exact result to 53 significant bits, ties to even, as IEEE 754      *)
(* does.                                                                   *)
(***************************************************************************)
EXTENDS Integers, Sequences, FiniteSets, TLC

(***************************************************************************)
(* Bounds of the model.                                                    *)
(***************************************************************************)
MaxStrLen == 3
MaxFiles == 3
MaxWorkers == 3
MaxLines == 3
MaxAggFiles == 3
MaxCommits == 4
MaxStride == 3
MaxOldLen == 12

(***************************************************************************)
(* float64.                                                                *)
(***************************************************************************)
LimbBits == 12
NLimbs == 6
FracLimbs == 5
MantBits == 53
Base == 2 ^ LimbBits

BigZero == [i \in 1..NLimbs |-> 0]

RECURSIVE BigAddFrom(_, _, _, _)
BigAddFrom(a, b, i, c) ==
    IF i > NLimbs THEN <<>>
    ELSE LET s == a[i] + b[i] + c
         IN  <<s % Base>> \o BigAddFrom(a, b, i + 1, s \div Base)

BigAdd(a, b) == BigAddFrom(a, b, 1, 0)

RECURSIVE BigSubFrom(_, _, _, _)
BigSubFrom(a, b, i, c) ==
    IF i > NLimbs THEN <<>>
    ELSE LET s == a[i] - b[i] - c
         IN  IF s < 0
             THEN <<s + Base>> \o BigSubFrom(a, b, i + 1, 1)
             ELSE <<s>> \o BigSubFrom(a, b, i + 1, 0)

\* a - b for a >= b
BigSub(a, b) == BigSubFrom(a, b, 1, 0)

RECURSIVE BigMulFrom(_, _, _, _)
BigMulFrom(a, k, i, c) ==
    IF i > NLimbs THEN <<>>
    ELSE LET s == a[i] * k + c
         IN  <<s % Base>> \o BigMulFrom(a, k, i + 1, s \div Base)

BigMulSmall(a, k) == BigMulFrom(a, k, 1, 0)

DivStep(rest, qi) == [q |-> rest.q \o <<qi>>, r |-> rest.r]

RECURSIVE BigDivFrom(_, _, _, _)
BigDivFrom(a, k, i, r) ==
    IF i = 0 THEN [q |-> <<>>, r |-> r]
    ELSE DivStep(BigDivFrom(a, k, i - 1, (r * Base + a[i]) % k), (r * Base + a[i]) \div k)

\* floor(a / k) and a mod k
BigDivSmall(a, k) == BigDivFrom(a, k, NLimbs, 0)

RECURSIVE BigLessFrom(_, _, _)
BigLessFrom(a, b, i) ==
    IF i = 0 THEN FALSE
    ELSE IF a[i] # b[i] THEN a[i] < b[i]
    ELSE BigLessFrom(a, b, i - 1)

BitLen(x) == CHOOSE n \in 0..LimbBits : x < 2 ^ n /\ (n = 0 \/ x >= 2 ^ (n - 1))
TopLimb(a) == CHOOSE i \in 1..NLimbs : a[i] # 0 /\ \A j \in (i + 1)..NLimbs : a[j] = 0
TopBitAt(a, i) == LimbBits * (i - 1) + BitLen(a[i]) - 1
\* the position of the highest set bit of a # 0
TopBit(a) == TopBitAt(a, TopLimb(a))

\* dv = x divided by D = k * p, p the weight of the last mantissa bit:
\* round the quotient to the nearest integer, ties to even
RoundNearestEven(dv, D, p) ==
    BigMulSmall(IF 2 * dv.r > D \/ (2 * dv.r = D /\ dv.q[1] % 2 = 1)
                THEN BigAdd(dv.q, [BigZero EXCEPT ![1] = 1])
                ELSE dv.q,
                p)

\* a quotient below the last mantissa bit's weight is kept only when exact
ExactQuot(fl) == CASE fl.r = 0 -> fl.q

\* x / k rounded at bit e
RoundAt(x, k, e) ==
    IF e >= 0 THEN RoundNearestEven(BigDivSmall(x, k * 2 ^ e), k * 2 ^ e, 2 ^ e)
    ELSE ExactQuot(BigDivSmall(x, k))

\* The float64 nearest to x / k (ties to even), for a value x and an integer k >= 1.
RoundQuot(x, k) ==
    IF x = BigZero THEN BigZero
    ELSE RoundAt(x, k, TopBit(BigDivSmall(x, k).q) - (MantBits - 1))

\* float64(n) for an int 0 <= n < 4096
FromInt(n) == [BigZero EXCEPT ![FracLimbs + 1] = n]
FZero == FromInt(0)
FOne == FromInt(1)
FAdd(x, y) == RoundQuot(BigAdd(x, y), 1)
\* x - y for x >= y
FSub(x, y) == RoundQuot(BigSub(x, y), 1)
\* x * float64(k)
FMulInt(x, k) == RoundQuot(BigMulSmall(x, k), 1)
\* x / float64(k), for k # 0
FDivInt(x, k) == CASE k > 0 -> RoundQuot(x, k)
FLess(x, y) == BigLessFrom(x, y, NLimbs)
FGeq(x, y) == ~FLess(x, y)
\* k * 2^-60
Tiny(k) == BigMulSmall([BigZero EXCEPT ![1] = 1], k)
\* |x - y| <= tol, computed exactly
Within(x, y, tol) ==
    IF FLess(x, y) THEN ~FLess(tol, BigSub(y, x)) ELSE ~FLess(tol, BigSub(x, y))

(***************************************************************************)
(* Strings: a string is a sequence of runes. "U" stands for a rune whose   *)
(* UTF-8 encoding takes two bytes; " " is the only white-space rune used.  *)
(***************************************************************************)
Runes == {" ", "a", "U"}
Width(c) == IF c = "U" THEN 2 ELSE 1

RECURSIVE StringsUpTo(_)
StringsUpTo(n) ==
    IF n = 0 THEN {<<>>}
    ELSE LET S == StringsUpTo(n - 1)
         IN  S \cup {Append(s, c) : s \in {t \in S : Len(t) = n - 1}, c \in Runes}

\* len(s): the number of bytes
RECURSIVE ByteLen(_)
ByteLen(s) == IF s = <<>> THEN 0 ELSE Width(Head(s)) + ByteLen(Tail(s))

IsSpace(c) == c = " "

RECURSIVE TrimLeft(_)
TrimLeft(s) == IF s # <<>> /\ IsSpace(Head(s)) THEN TrimLeft(Tail(s)) ELSE s

RECURSIVE TrimRight(_)
TrimRight(s) ==
    IF s # <<>> /\ IsSpace(s[Len(s)]) THEN TrimRight(SubSeq(s, 1, Len(s) - 1)) ELSE s

\* only the leading white space is removed
TrimLeadingOnly(s) == TrimLeft(s)

\* strings.TrimSpace
TrimSpace(s) == TrimRight(TrimLeft(s))

Min3(x, y, z) == IF x <= y /\ x <= z THEN x ELSE IF y <= z THEN y ELSE z

\* levenshtein.ComputeDistance: unit-cost edit distance over runes
RECURSIVE ComputeDistance(_, _)
ComputeDistance(a, b) ==
    IF a = <<>> THEN Len(b)
    ELSE IF b = <<>> THEN Len(a)
    ELSE Min3(ComputeDistance(Tail(a), b) + 1,
              ComputeDistance(a, Tail(b)) + 1,
              ComputeDistance(Tail(a), Tail(b)) + (IF Head(a) = Head(b) THEN 0 ELSE 1))

(***************************************************************************)
(* similarity.go                                                           *)
(***************************************************************************)
MaxFirst(a, b) == a

max(a, b) == IF a > b THEN a ELSE b

\* MinimumSimilarityThreshold = 0.25
MinimumSimilarityThreshold == FDivInt(FOne, 4)

\* similarity := 1.0 - ratio, clamped to [0, 1]
Clamped(ratio) ==
    IF FLess(FOne, ratio) THEN FZero      \* similarity < 0.0
    ELSE FSub(FOne, ratio)

\* the empty-string test is left out
SimilarityNoEmptyTest(original, current) ==
    IF original = current THEN FOne
    ELSE Clamped(FDivInt(FromInt(ComputeDistance(original, current)),
                         max(ByteLen(original), ByteLen(current))))

\* CalculateSimilarity after both strings have been trimmed
SimilarityTrimmed(original, current) ==
    IF original = current THEN FOne
    ELSE IF original = <<>> \/ current = <<>> THEN FZero
    ELSE Clamped(FDivInt(FromInt(ComputeDistance(original, current)),
                         max(ByteLen(original), ByteLen(current))))

CalculateSimilarity(original, current) ==
    SimilarityTrimmed(TrimSpace(original), TrimSpace(current))

\* the threshold itself is not counted
IsOriginalStrict(similarity) == FLess(MinimumSimilarityThreshold, similarity)

IsOriginal(similarity) == FGeq(similarity, MinimumSimilarityThreshold)

(***************************************************************************)
(* The repository as the analysis sees it. A file f is a record            *)
(*   path, ext       its path and filepath.Ext(path)                       *)
(*   readable        os.ReadFile succeeds                                  *)
(*   content         strings.Split(content, "\n"): at least one line       *)
(*   blameErr,       GetBlame fails / the number of BlameInfo entries it   *)
(*   blameLen        returns                                               *)
(*   historyErr,     GetFileHistory fails / the commit hashes it returns,  *)
(*   commits         newest first                                          *)
(*   firstErr,       GetFileAtCommit of the oldest commit fails / its      *)
(*   firstContent    text, split into lines                                *)
(***************************************************************************)
Nil == [nil |-> TRUE]

(***************************************************************************)
(* filter/comments.go                                                      *)
(***************************************************************************)
HasPrefix(s, p) == Len(s) >= Len(p) /\ SubSeq(s, 1, Len(p)) = p

\* commentPatterns: the extensions of the model's files; a pattern ^\s*P is
\* given by its literal P. No other extension of the model is in the map.
commentPatterns(ext) ==
    CASE ext = ".go" -> {<<"/", "/">>, <<"/", "*">>}
      [] ext = ".py" -> {<<"#">>}
      [] OTHER -> {}

IsBlankOrComment(line, ext) ==
    LET trimmed == TrimSpace(line)
    IN  IF trimmed = <<>> THEN TRUE
        ELSE \E pattern \in commentPatterns(ext) : HasPrefix(TrimLeft(line), pattern)

(***************************************************************************)
(* history.go                                                              *)
(***************************************************************************)
LineMovementWindow == 10

\* every line more similar than the best so far is a match
FindStepNoThreshold(best, line, similarity, i) ==
    IF FLess(best.bestSimilarity, similarity)
    THEN [bestMatch |-> line, bestSimilarity |-> similarity, bestLineNum |-> i + 1]
    ELSE best

\* a later line of the same similarity replaces the match
FindStepLastWins(best, line, similarity, i) ==
    IF FGeq(similarity, MinimumSimilarityThreshold) /\ FGeq(similarity, best.bestSimilarity)
    THEN [bestMatch |-> line, bestSimilarity |-> similarity, bestLineNum |-> i + 1]
    ELSE best

\* the body of the search loop at 0-indexed position i
FindStep(best, line, similarity, i) ==
    IF FGeq(similarity, MinimumSimilarityThreshold) /\ FLess(best.bestSimilarity, similarity)
    THEN [bestMatch |-> line, bestSimilarity |-> similarity, bestLineNum |-> i + 1]
    ELSE best

\* for i := start; i <= end; i++
RECURSIVE FindLoop(_, _, _, _, _)
FindLoop(lines, targetLine, i, end, best) ==
    IF i > end THEN best
    ELSE FindLoop(lines, targetLine, i + 1, end,
             FindStep(best, lines[i + 1], CalculateSimilarity(targetLine, lines[i + 1]), i))

\* the search starts at the first line
SearchFromTop(targetIdx) == 0

SearchStart(targetIdx) ==
    IF targetIdx - LineMovementWindow < 0 THEN 0 ELSE targetIdx - LineMovementWindow

\* the end of the range is not clamped to the last line
SearchEndUnclamped(targetIdx, n) == targetIdx + LineMovementWindow

SearchEnd(targetIdx, n) ==
    IF targetIdx + LineMovementWindow >= n THEN n - 1 ELSE targetIdx + LineMovementWindow

Found(best) == [line |-> best.bestMatch, num |-> best.bestLineNum]

findSimilarLineInRange(lines, targetLineNum, targetLine) ==
    IF Len(lines) = 0 THEN [line |-> <<>>, num |-> 0]
    ELSE Found(FindLoop(lines, targetLine,
                        SearchStart(targetLineNum - 1),
                        SearchEnd(targetLineNum - 1, Len(lines)),
                        [bestMatch |-> <<>>, bestSimilarity |-> FZero, bestLineNum |-> 0]))

LineHistory(currentLine, originalLine, currentLineNum, originalLineNum, firstCommitHash, blameInfo, similarity) ==
    [CurrentLine |-> currentLine, OriginalLine |-> originalLine,
     CurrentLineNum |-> currentLineNum, OriginalLineNum |-> originalLineNum,
     FirstCommitHash |-> firstCommitHash, FirstCommitDate |-> blameInfo.CommitDate,
     LastCommitHash |-> blameInfo.CommitHash, LastCommitDate |-> blameInfo.CommitDate,
     Similarity |-> similarity]

\* the fallback reports a line without origin
OwnOriginEmpty(currentLine, currentLineNum, firstCommitHash, blameInfo) ==
    LineHistory(currentLine, <<>>, currentLineNum, currentLineNum,
                firstCommitHash, blameInfo, FZero)

\* the current line is its own origin
OwnOrigin(currentLine, currentLineNum, firstCommitHash, blameInfo) ==
    LineHistory(currentLine, currentLine, currentLineNum, currentLineNum,
                firstCommitHash, blameInfo, FOne)

\* a line without a match is reported as its own origin
TraceFoundOrOwn(currentLine, currentLineNum, firstCommitHash, blameInfo, found) ==
    IF found.line = <<>>
    THEN LineHistory(currentLine, currentLine, currentLineNum, currentLineNum,
                     firstCommitHash, blameInfo, FOne)
    ELSE LineHistory(currentLine, found.line, currentLineNum, found.num,
                     firstCommitHash, blameInfo, CalculateSimilarity(found.line, currentLine))

\* TraceLineHistory once the search in the first commit's lines has returned
TraceFound(currentLine, currentLineNum, firstCommitHash, blameInfo, found) ==
    IF found.line = <<>>
    THEN LineHistory(currentLine, <<>>, currentLineNum, currentLineNum,
                     firstCommitHash, blameInfo, CalculateSimilarity(<<>>, currentLine))
    ELSE LineHistory(currentLine, found.line, currentLineNum, found.num,
                     firstCommitHash, blameInfo, CalculateSimilarity(found.line, currentLine))

TraceLineHistory(f, currentLine, currentLineNum, blameInfo) ==
    IF f.historyErr \/ Len(f.commits) = 0
    THEN OwnOrigin(currentLine, currentLineNum, blameInfo.CommitHash, blameInfo)
    ELSE IF f.firstErr
    THEN OwnOrigin(currentLine, currentLineNum, f.commits[Len(f.commits)], blameInfo)
    ELSE TraceFound(currentLine, currentLineNum, f.commits[Len(f.commits)], blameInfo,
                    findSimilarLineInRange(f.firstContent, currentLineNum, currentLine))

\* the commit hashes git blame reports, by line
BlameHashes == <<"h1", "h2", "h3", "h4", "h5", "h6", "h7", "h8">>

\* GetBlame: one BlameInfo for each of the first blameLen lines
GetBlame(f) ==
    [i \in 1..f.blameLen |-> [CommitHash |-> BlameHashes[i], LineNum |-> i, CommitDate |-> i]]

\* every line is paired with the first blame entry
RECURSIVE TraceLoopFirstBlame(_, _, _, _)
TraceLoopFirstBlame(f, lines, blameInfos, i) ==
    IF i > Len(lines) THEN <<>>
    ELSE IF TrimSpace(lines[i]) = <<>> THEN TraceLoopFirstBlame(f, lines, blameInfos, i + 1)
    ELSE <<TraceLineHistory(f, lines[i], i, blameInfos[1])>>
         \o TraceLoopFirstBlame(f, lines, blameInfos, i + 1)

RECURSIVE TraceLoop(_, _, _, _)
TraceLoop(f, lines, blameInfos, i) ==
    IF i > Len(lines) THEN <<>>
    ELSE IF TrimSpace(lines[i]) = <<>> THEN TraceLoop(f, lines, blameInfos, i + 1)
    ELSE <<TraceLineHistory(f, lines[i], i, blameInfos[i])>>
         \o TraceLoop(f, lines, blameInfos, i + 1)

TraceFileLines(f) ==
    IF f.blameErr THEN [err |-> "failed to get blame", histories |-> <<>>]
    ELSE LET lines == f.content
         IN  IF f.blameLen > Len(lines)
             THEN [err |-> "blame line count exceeds file line count", histories |-> <<>>]
             ELSE [err |-> "",
                   histories |-> TraceLoop(f, SubSeq(lines, 1, f.blameLen), GetBlame(f), 1)]

(***************************************************************************)
(* analyzer.go                                                             *)
(***************************************************************************)
RECURSIVE SumSimilarity(_, _)
SumSimilarity(histories, n) ==
    IF n = 0 THEN FZero
    ELSE FAdd(SumSimilarity(histories, n - 1), histories[n].Similarity)

RECURSIVE CountOriginal(_, _)
CountOriginal(histories, n) ==
    IF n = 0 THEN 0
    ELSE CountOriginal(histories, n - 1)
         + (IF IsOriginal(histories[n].Similarity) THEN 1 ELSE 0)

\* the file metrics computed from the traced histories
FileMetrics(filePath, histories) ==
    [Path          |-> filePath,
     TotalLines    |-> Len(histories),
     OriginalLines |-> CountOriginal(histories, Len(histories)),
     AvgSimilarity |-> IF Len(histories) > 0
                       THEN FDivInt(SumSimilarity(histories, Len(histories)), Len(histories))
                       ELSE FZero,
     LineHistories |-> histories]

\* analyzeFile once TraceFileLines has returned
Traced(f, traced) ==
    IF traced.err # "" THEN [err |-> "failed to trace lines", analysis |-> Nil]
    ELSE [err |-> "", analysis |-> FileMetrics(f.path, traced.histories)]

\* the lines of the content that are neither blank nor comment-only
CodeLines(f) == SelectSeq(f.content, LAMBDA line : ~IsBlankOrComment(line, f.ext))

analyzeFile(f) ==
    IF ~f.readable THEN [err |-> "failed to read file", analysis |-> Nil]
    ELSE IF Len(CodeLines(f)) = 0
    THEN [err |-> "no code lines found (all comments/blanks)", analysis |-> Nil]
    ELSE Traced(f, TraceFileLines(f))

\* the totals are overwritten instead of accumulated
AggregateStepLast(acc, fa) ==
    [totalLines      |-> fa.TotalLines,
     originalLines   |-> fa.OriginalLines,
     totalSimilarity |-> FMulInt(fa.AvgSimilarity, fa.TotalLines)]

\* the per-file means are added without their line counts
AggregateStepUnweighted(acc, fa) ==
    [totalLines      |-> acc.totalLines + fa.TotalLines,
     originalLines   |-> acc.originalLines + fa.OriginalLines,
     totalSimilarity |-> FAdd(acc.totalSimilarity, fa.AvgSimilarity)]

\* the body of the aggregation loop
AggregateStep(acc, fa) ==
    [totalLines      |-> acc.totalLines + fa.TotalLines,
     originalLines   |-> acc.originalLines + fa.OriginalLines,
     totalSimilarity |-> FAdd(acc.totalSimilarity, FMulInt(fa.AvgSimilarity, fa.TotalLines))]

\* for _, fa := range fileAnalyses
RECURSIVE AggregateLoop(_, _)
AggregateLoop(fileAnalyses, n) ==
    IF n = 0 THEN [totalLines |-> 0, originalLines |-> 0, totalSimilarity |-> FZero]
    ELSE AggregateStep(AggregateLoop(fileAnalyses, n - 1), fileAnalyses[n])

Aggregated(fileAnalyses, acc) ==
    [TotalLines          |-> acc.totalLines,
     OriginalLines       |-> acc.originalLines,
     AverageSimilarity   |-> IF acc.totalLines > 0
                             THEN FDivInt(acc.totalSimilarity, acc.totalLines)
                             ELSE FZero,
     FileAnalyses        |-> fileAnalyses,
     HistoricalSnapshots |-> <<>>]

aggregateResults(fileAnalyses) ==
    Aggregated(fileAnalyses, AggregateLoop(fileAnalyses, Len(fileAnalyses)))

(***************************************************************************)
(* The timeline of similarity.go. Its percentages are modelled as exact    *)
(* fractions <<numerator, denominator>> in lowest terms; math.Exp is a     *)
(* table of its values to four decimal places.                             *)
(***************************************************************************)
RECURSIVE GCD(_, _)
GCD(a, b) == IF b = 0 THEN a ELSE GCD(b, a % b)

Norm(n, d) == <<n \div GCD(n, d), d \div GCD(n, d)>>
RInt(n) == <<n, 1>>
RAdd(x, y) == Norm(x[1] * y[2] + y[1] * x[2], x[2] * y[2])
\* x - y for x >= y
RSub(x, y) == Norm(x[1] * y[2] - y[1] * x[2], x[2] * y[2])
RMul(x, y) == Norm(x[1] * y[1], x[2] * y[2])
RDivInt(x, k) == Norm(x[1], x[2] * k)
RLess(x, y) == x[1] * y[2] < y[1] * x[2]

\* math.Exp(-x)
ExpMinus(x) ==
    CASE x = <<1, 2000>> -> <<9995, 10000>>
      [] x = <<1, 2>> -> <<6065, 10000>>
      [] x = <<1, 1>> -> <<3679, 10000>>
      [] x = <<2, 1>> -> <<1353, 10000>>
      [] x = <<4, 1>> -> <<183, 10000>>

calculateChurnFactor(totalChurn) ==
    IF totalChurn <= 50 THEN RInt(1)
    ELSE IF totalChurn <= 200
    THEN RSub(RInt(1), RMul(RDivInt(RInt(totalChurn - 50), 150), <<3, 10>>))
    ELSE IF totalChurn <= 1000
    THEN RSub(<<7, 10>>, RMul(RDivInt(RInt(totalChurn - 200), 800), <<1, 5>>))
    ELSE RAdd(RMul(<<1, 2>>, ExpMinus(RDivInt(RInt(totalChurn - 1000), 2000))), <<3, 10>>)

\* for i := len(allCommits) - 1; i >= 0; i -= sampleRate (i is 0-indexed)
RECURSIVE SampleFrom(_, _, _)
SampleFrom(allCommits, i, sampleRate) ==
    IF i < 0 THEN <<>>
    ELSE <<allCommits[i + 1]>> \o SampleFrom(allCommits, i - sampleRate, sampleRate)

\* the most recent commit is appended even when the loop sampled it
WithMostRecentAgain(sampledCommits, allCommits) == Append(sampledCommits, allCommits[1])

\* always include the most recent commit
WithMostRecent(sampledCommits, allCommits) ==
    IF Len(sampledCommits) = 0
       \/ sampledCommits[Len(sampledCommits)].Hash # allCommits[1].Hash
    THEN Append(sampledCommits, allCommits[1])
    ELSE sampledCommits

\* a commit without stats counts as a major refactoring
TotalChurnMissingHigh(stats) == IF stats = Nil THEN 3000 ELSE stats.additions + stats.deletions

\* stats["additions"] + stats["deletions"], the stats being zero when
\* GetCommitStats fails
TotalChurn(stats) == IF stats = Nil THEN 0 ELSE stats.additions + stats.deletions

AgeRatio(i, n) == IF n = 1 THEN RInt(1) ELSE RDivInt(RInt(i), n - 1)
\* 1.0 - (ageRatio * decayRate)
AgeDecay(ageRatio) == RSub(RInt(1), RMul(ageRatio, <<3, 5>>))

\* clamp to the minimum baseline
Floored(originalPct) == IF RLess(originalPct, RInt(10)) THEN RInt(10) ELSE originalPct

\* the estimate is kept when it is below the current percentage
AboveCurrentUnanchored(originalPct, ageDecay, currentOriginalPct) == originalPct

AboveCurrent(originalPct, ageDecay, currentOriginalPct) ==
    IF RLess(originalPct, currentOriginalPct)
    THEN RAdd(currentOriginalPct,
              RMul(RMul(ageDecay, RSub(RInt(100), currentOriginalPct)), <<3, 10>>))
    ELSE originalPct

\* the estimate for a historical commit
Estimate(ageDecay, churnFactor, currentOriginalPct) ==
    AboveCurrent(Floored(RMul(RMul(RInt(100), ageDecay), churnFactor)),
                 ageDecay, currentOriginalPct)

\* the test never holds inside the loop
IsMostRecentOffByOne(i, n) == i = n

\* i == len(sampledCommits)-1
IsMostRecent(i, n) == i = n - 1

\* every snapshot carries the current percentage
PinnedPct(i, n, churnFactor, currentOriginalPct) == currentOriginalPct

SnapshotPct(i, n, churnFactor, currentOriginalPct) ==
    IF IsMostRecent(i, n) THEN currentOriginalPct
    ELSE Estimate(AgeDecay(AgeRatio(i, n)), churnFactor, currentOriginalPct)

\* the body of the loop over sampledCommits, i 0-indexed
Snapshot(repo, sampledCommits, i, currentOriginalPct) ==
    [CommitHash  |-> sampledCommits[i + 1].Hash,
     Date        |-> sampledCommits[i + 1].Date,
     OriginalPct |-> SnapshotPct(i, Len(sampledCommits),
                                 calculateChurnFactor(
                                     TotalChurn(repo.stats[sampledCommits[i + 1].Hash])),
                                 currentOriginalPct)]

Snapshots(repo, sampledCommits, currentOriginalPct) ==
    [k \in 1..Len(sampledCommits) |-> Snapshot(repo, sampledCommits, k - 1, currentOriginalPct)]

GenerateHistoricalSnapshots(repo, sampleRate, currentOriginalPct) ==
    IF repo.commitsErr THEN [err |-> "failed to get commits", snapshots |-> Nil]
    ELSE IF Len(repo.allCommits) = 0
    THEN [err |-> "no commits found in repository", snapshots |-> Nil]
    ELSE [err |-> "",
          snapshots |-> Snapshots(repo,
                                  WithMostRecent(SampleFrom(repo.allCommits,
                                                            Len(repo.allCommits) - 1,
                                                            sampleRate),
                                                 repo.allCommits),
                                  currentOriginalPct)]

\* float64(OriginalLines) / float64(TotalLines) * 100.0, or 0.0
CurrentPct(analysis) ==
    IF analysis.TotalLines > 0
    THEN RMul(RDivInt(RInt(analysis.OriginalLines), analysis.TotalLines), RInt(100))
    ELSE RInt(0)

\* a failed generation empties the analysis
WithSnapshotsOrEmptied(analysis, generated) ==
    IF generated.err # ""
    THEN [err |-> generated.err,
          analysis |-> [analysis EXCEPT !.FileAnalyses = <<>>, !.TotalLines = 0]]
    ELSE [err |-> "",
          analysis |-> [analysis EXCEPT !.HistoricalSnapshots = generated.snapshots]]

WithSnapshots(analysis, generated) ==
    IF generated.err # "" THEN [err |-> generated.err, analysis |-> analysis]
    ELSE [err |-> "",
          analysis |-> [analysis EXCEPT !.HistoricalSnapshots = generated.snapshots]]

AddSnapshotsToAnalysis(analysis, repo, sampleRate) ==
    WithSnapshots(analysis, GenerateHistoricalSnapshots(repo, sampleRate, CurrentPct(analysis)))

(***************************************************************************)
(* State.                                                                  *)
(***************************************************************************)
VARIABLES
    simA, simB,      \* the two arguments of CalculateSimilarity
    simAB, simBA,    \* similarity(a, b) and similarity(b, a), NoValue until computed
    \* analyzeFile(repoPath, filePath)
    fileIn,          \* the file and what the provider returns for it
    fileOut,         \* what analyzeFile returned, NoValue until it has
    fileAgg,         \* aggregateResults of a result list holding fileOut's analysis
    \* aggregateResults(fileAnalyses)
    aggIn,           \* the list of file analyses
    aggPerm,         \* the same analyses in another order
    aggOut,          \* aggregateResults(aggIn), NoValue until computed
    aggOutPerm,      \* aggregateResults(aggPerm), NoValue until computed
    \* AddSnapshotsToAnalysis(analysis, repoPath, sampleRate)
    tlRepo,          \* what GetAllCommits and GetCommitStats return
    tlRate,          \* sampleRate
    tlAnalysis,      \* the analysis before the call
    tlOut,           \* the error returned and the analysis after the call
    tlPct,           \* currentOriginalPct of a call of GenerateHistoricalSnapshots
    tlSnaps,         \* what that call returned
    \* TraceLineHistory(repoPath, filePath, currentLine, currentLineNum, blameInfo)
    trFile,          \* the file and what the provider returns for it
    trLine,          \* currentLine
    trNum,           \* currentLineNum
    trFound,         \* findSimilarLineInRange(firstLines, currentLineNum, currentLine)
    trHist,          \* the LineHistory returned, NoValue until it is
    \* processFilesParallel(repoPath, files, numWorkers)
    files,           \* the file list
    numWorkers,
    mainPc,          \* where the calling goroutine is
    spawned,         \* workers started so far (the loop variable i)
    sent,            \* paths written to workChan so far
    workChan,        \* buffered channel of paths, capacity len(files)
    workClosed,
    resultChan,      \* buffered channel of *FileAnalysis, capacity len(files)
    resultClosed,
    wg,              \* the WaitGroup counter
    wpc,             \* where each worker goroutine is
    wfile,           \* the path a worker took from workChan
    wres,            \* the analysis a worker is about to send
    closerPc,        \* where the goroutine that closes resultChan is
    results,         \* the list being collected, returned at the end
    warnings,        \* per path, the "Warning: Failed to analyze" lines printed
    calls,           \* per path, the calls of analyzeFile made
    \* calculateChurnFactor(totalChurn)
    churnA, churnB,  \* two churn values, churnA <= churnB
    factorA, factorB, \* their churn factors, NoValue until computed
    \* AnalyzeRepository(repoPath, numWorkers)
    runIn,           \* what the file system answers for the repository path
    runOut           \* what AnalyzeRepository returned, NoValue until it has

NoValue == <<>>

simVars == <<simA, simB, simAB, simBA>>
fileVars == <<fileIn, fileOut, fileAgg>>
aggVars == <<aggIn, aggPerm, aggOut, aggOutPerm>>
timelineVars == <<tlRepo, tlRate, tlAnalysis, tlOut, tlPct, tlSnaps>>
chanVars == <<workChan, workClosed, resultChan, resultClosed>>
mainVars == <<files, numWorkers, mainPc, spawned, sent, results>>
workerVars == <<wg, wpc, wfile, wres, closerPc, warnings, calls>>
schedVars == <<chanVars, mainVars, workerVars>>
traceVars == <<trFile, trLine, trNum, trFound, trHist>>
churnVars == <<churnA, churnB, factorA, factorB>>
runVars == <<runIn, runOut>>
\* the variables processFilesParallel and its goroutines leave alone
pureVars == <<simVars, fileVars, aggVars, timelineVars, traceVars, churnVars, runVars>>
vars == <<pureVars, churnVars, runVars, schedVars>>

(***************************************************************************)
(* The files of the repository the scheduler runs on.                      *)
(***************************************************************************)
Str1(a) == <<a>>
Str3(a, b, c) == <<a, b, c>>
Str4(a, b, c, d) == <<a, b, c, d>>

PathOrder == <<"a.go", "b.go", "c.txt", "d.go">>
\* a file that only the directory walk of AnalyzeRepository lists
WalkOnlyPaths == {"e.go"}
Paths == {PathOrder[i] : i \in DOMAIN PathOrder} \cup WalkOnlyPaths

Repo ==
    [p \in Paths |->
        CASE p = "a.go" ->
               \* a changed line, a comment, an unchanged line, the trailing ""
               [path |-> p, ext |-> ".go", readable |-> TRUE,
                content |-> <<Str4("a", "a", "a", "a"), Str3("/", "/", "a"), Str1("a"), <<>>>>,
                blameErr |-> FALSE, blameLen |-> 3,
                historyErr |-> FALSE, commits |-> <<"c2", "c1">>,
                firstErr |-> FALSE,
                firstContent |-> <<Str1("a"), Str1("U"), Str1("a"), <<>>>>]
          [] p = "b.go" ->
               \* comments and blank lines only
               [path |-> p, ext |-> ".go", readable |-> TRUE,
                content |-> <<Str3("/", "/", "a"), <<>>>>,
                blameErr |-> FALSE, blameLen |-> 1,
                historyErr |-> FALSE, commits |-> <<"c1">>,
                firstErr |-> FALSE,
                firstContent |-> <<Str3("/", "/", "a"), <<>>>>]
          [] p = "c.txt" ->
               \* one line kept, one rewritten
               [path |-> p, ext |-> ".txt", readable |-> TRUE,
                content |-> <<Str1("a"), Str1("U")>>,
                blameErr |-> FALSE, blameLen |-> 2,
                historyErr |-> FALSE, commits |-> <<"c3", "c1">>,
                firstErr |-> FALSE,
                firstContent |-> <<Str1("a"), Str3("a", "a", "a")>>]
          [] p = "d.go" ->
               \* git blame fails
               [path |-> p, ext |-> ".go", readable |-> TRUE,
                content |-> <<Str1("a")>>,
                blameErr |-> TRUE, blameLen |-> 0,
                historyErr |-> FALSE, commits |-> <<"c1">>,
                firstErr |-> FALSE,
                firstContent |-> <<Str1("a")>>]
          [] p = "e.go" ->
               \* git log fails: there is no revision list for the file
               [path |-> p, ext |-> ".go", readable |-> TRUE,
                content |-> <<Str1("a"), Str1("U")>>,
                blameErr |-> FALSE, blameLen |-> 2,
                historyErr |-> TRUE, commits |-> <<>>,
                firstErr |-> FALSE,
                firstContent |-> <<>>]]

\* the file lists: the paths of a directory walk, in its order
FileLists ==
    {SelectSeq(PathOrder, LAMBDA p : p \in S) :
        S \in {T \in SUBSET Paths : Cardinality(T) <= MaxFiles}}

(***************************************************************************)
(* Spec: processFilesParallel, its workers and the goroutine that closes   *)
(* the result channel.                                                     *)
(***************************************************************************)
Workers == 1..MaxWorkers

SchedIdle ==
    /\ files = <<>>
    /\ numWorkers = 0
    /\ mainPc = "idle"
    /\ spawned = 0
    /\ sent = 0
    /\ workChan = <<>>
    /\ workClosed = FALSE
    /\ resultChan = <<>>
    /\ resultClosed = FALSE
    /\ wg = 0
    /\ wpc = [w \in Workers |-> "idle"]
    /\ wfile = [w \in Workers |-> ""]
    /\ wres = [w \in Workers |-> Nil]
    /\ closerPc = "idle"
    /\ results = <<>>
    /\ warnings = [p \in Paths |-> 0]
    /\ calls = [p \in Paths |-> 0]

SimIdle ==
    /\ simA = <<>>
    /\ simB = <<>>
    /\ simAB = NoValue
    /\ simBA = NoValue

FileIdle ==
    /\ fileIn = NoValue
    /\ fileOut = NoValue
    /\ fileAgg = NoValue

AggIdle ==
    /\ aggIn = <<>>
    /\ aggPerm = <<>>
    /\ aggOut = NoValue
    /\ aggOutPerm = NoValue

TraceIdle ==
    /\ trFile = NoValue
    /\ trLine = <<>>
    /\ trNum = 0
    /\ trFound = NoValue
    /\ trHist = NoValue

ChurnIdle ==
    /\ churnA = 0
    /\ churnB = 0
    /\ factorA = NoValue
    /\ factorB = NoValue

RunIdle ==
    /\ runIn = NoValue
    /\ runOut = NoValue

TimelineIdle ==
    /\ tlRepo = NoValue
    /\ tlRate = 0
    /\ tlAnalysis = NoValue
    /\ tlOut = NoValue
    /\ tlPct = NoValue
    /\ tlSnaps = NoValue

Init ==
    /\ SimIdle
    /\ FileIdle
    /\ AggIdle
    /\ TimelineIdle
    /\ TraceIdle
    /\ ChurnIdle
    /\ RunIdle
    /\ files \in FileLists
    /\ numWorkers \in 1..MaxWorkers
    /\ mainPc = "spawn"
    /\ spawned = 0
    /\ sent = 0
    /\ workChan = <<>>
    /\ workClosed = FALSE
    /\ resultChan = <<>>
    /\ resultClosed = FALSE
    /\ wg = 0
    /\ wpc = [w \in Workers |-> "idle"]
    /\ wfile = [w \in Workers |-> ""]
    /\ wres = [w \in Workers |-> Nil]
    /\ closerPc = "idle"
    /\ results = <<>>
    /\ warnings = [p \in Paths |-> 0]
    /\ calls = [p \in Paths |-> 0]

\* for i := 0; i < numWorkers; i++ { wg.Add(1); go worker(...) }
Spawn ==
    /\ mainPc = "spawn"
    /\ spawned < numWorkers
    /\ wg' = wg + 1
    /\ wpc' = [wpc EXCEPT ![spawned + 1] = "recv"]
    /\ spawned' = spawned + 1
    /\ mainPc' = IF spawned + 1 < numWorkers THEN "spawn" ELSE "send"
    /\ UNCHANGED <<pureVars, chanVars, files, numWorkers, sent, results,
                   wfile, wres, closerPc, warnings, calls>>

\* for _, file := range files { workChan <- file }
Send ==
    /\ mainPc = "send"
    /\ sent < Len(files)
    /\ Len(workChan) < Len(files)
    /\ workChan' = Append(workChan, files[sent + 1])
    /\ sent' = sent + 1
    /\ UNCHANGED <<pureVars, workClosed, resultChan, resultClosed, files, numWorkers,
                   mainPc, spawned, results, workerVars>>

\* the work channel is left open
CloseWorkForgotten ==
    /\ mainPc = "send"
    /\ sent = Len(files)
    /\ mainPc' = "goCloser"
    /\ UNCHANGED <<pureVars, chanVars, files, numWorkers, spawned, sent, results, workerVars>>

\* close(workChan)
CloseWork ==
    /\ mainPc = "send"
    /\ sent = Len(files)
    /\ workClosed' = TRUE
    /\ mainPc' = "goCloser"
    /\ UNCHANGED <<pureVars, workChan, resultChan, resultClosed, files, numWorkers,
                   spawned, sent, results, workerVars>>

\* go func() { wg.Wait(); close(resultChan) }()
GoCloser ==
    /\ mainPc = "goCloser"
    /\ closerPc' = "wait"
    /\ mainPc' = "collect"
    /\ UNCHANGED <<pureVars, chanVars, files, numWorkers, spawned, sent, results,
                   wg, wpc, wfile, wres, warnings, calls>>

\* for result := range resultChan { if result != nil { results = append(...) } }
Collect ==
    /\ mainPc = "collect"
    /\ resultChan # <<>>
    /\ resultChan' = Tail(resultChan)
    /\ results' = IF Head(resultChan) # Nil THEN Append(results, Head(resultChan))
                  ELSE results
    /\ UNCHANGED <<pureVars, workChan, workClosed, resultClosed, files, numWorkers,
                   mainPc, spawned, sent, workerVars>>

\* the range loop ends when resultChan is closed and empty; return results
Return ==
    /\ mainPc = "collect"
    /\ resultChan = <<>>
    /\ resultClosed
    /\ mainPc' = "done"
    /\ UNCHANGED <<pureVars, chanVars, files, numWorkers, spawned, sent, results,
                   workerVars>>

\* for filePath := range workChan
WRecv(w) ==
    /\ wpc[w] = "recv"
    /\ workChan # <<>>
    /\ wfile' = [wfile EXCEPT ![w] = Head(workChan)]
    /\ workChan' = Tail(workChan)
    /\ wpc' = [wpc EXCEPT ![w] = "analyze"]
    /\ UNCHANGED <<pureVars, workClosed, resultChan, resultClosed, mainVars,
                   wg, wres, closerPc, warnings, calls>>

\* workChan is closed and empty: the loop ends and the deferred wg.Done() runs
WExit(w) ==
    /\ wpc[w] = "recv"
    /\ workChan = <<>>
    /\ workClosed
    /\ wg' = wg - 1
    /\ wpc' = [wpc EXCEPT ![w] = "done"]
    /\ UNCHANGED <<pureVars, chanVars, mainVars, wfile, wres, closerPc, warnings, calls>>

\* what analyzeFile returns for each path of the repository
AnalysisOf == [p \in Paths |-> analyzeFile(Repo[p])]

\* analysis, err := analyzeFile(repoPath, filePath); on error: warn and continue
\* a failed file is skipped without a warning
WAnalyzedSilent(w, r) ==
    /\ calls' = [calls EXCEPT ![wfile[w]] = @ + 1]
    /\ warnings' = warnings
    /\ IF r.err # ""
       THEN /\ wpc' = [wpc EXCEPT ![w] = "recv"]
            /\ wres' = wres
       ELSE /\ wres' = [wres EXCEPT ![w] = r.analysis]
            /\ wpc' = [wpc EXCEPT ![w] = "send"]

WAnalyzed(w, r) ==
    /\ calls' = [calls EXCEPT ![wfile[w]] = @ + 1]
    /\ IF r.err # ""
       THEN /\ warnings' = [warnings EXCEPT ![wfile[w]] = @ + 1]
            /\ wpc' = [wpc EXCEPT ![w] = "recv"]
            /\ wres' = wres
       ELSE /\ wres' = [wres EXCEPT ![w] = r.analysis]
            /\ wpc' = [wpc EXCEPT ![w] = "send"]
            /\ warnings' = warnings

WAnalyze(w) ==
    /\ wpc[w] = "analyze"
    /\ WAnalyzed(w, AnalysisOf[wfile[w]])
    /\ UNCHANGED <<pureVars, chanVars, mainVars, wg, wfile, closerPc>>

\* the worker appends its result to the list the caller returns
WSendDirect(w) ==
    /\ wpc[w] = "send"
    /\ results' = Append(results, wres[w])
    /\ wres' = [wres EXCEPT ![w] = Nil]
    /\ wpc' = [wpc EXCEPT ![w] = "recv"]
    /\ UNCHANGED <<pureVars, chanVars, files, numWorkers, mainPc, spawned, sent,
                   wg, wfile, closerPc, warnings, calls>>

\* the workers share one result variable instead of each having its own
WSendShared(w) ==
    /\ wpc[w] = "send"
    /\ IF resultClosed
       THEN /\ wpc' = [wpc EXCEPT ![w] = "panic"]
            /\ UNCHANGED <<resultChan, wres>>
       ELSE /\ Len(resultChan) < Len(files)
            /\ resultChan' = Append(resultChan, wres[1])
            /\ wres' = [wres EXCEPT ![w] = Nil]
            /\ wpc' = [wpc EXCEPT ![w] = "recv"]
    /\ UNCHANGED <<pureVars, workChan, workClosed, resultClosed, mainVars,
                   wg, wfile, closerPc, warnings, calls>>

\* resultChan <- analysis (a send on a closed channel panics)
WSend(w) ==
    /\ wpc[w] = "send"
    /\ IF resultClosed
       THEN /\ wpc' = [wpc EXCEPT ![w] = "panic"]
            /\ UNCHANGED <<resultChan, wres>>
       ELSE /\ Len(resultChan) < Len(files)
            /\ resultChan' = Append(resultChan, wres[w])
            /\ wres' = [wres EXCEPT ![w] = Nil]
            /\ wpc' = [wpc EXCEPT ![w] = "recv"]
    /\ UNCHANGED <<pureVars, workChan, workClosed, resultClosed, mainVars,
                   wg, wfile, closerPc, warnings, calls>>

\* the result channel is closed without waiting for the workers
CloserNoWait ==
    /\ closerPc = "wait"
    /\ closerPc' = "close"
    /\ UNCHANGED <<pureVars, chanVars, mainVars, wg, wpc, wfile, wres, warnings, calls>>

\* wg.Wait() returns once the counter is zero
CloserWait ==
    /\ closerPc = "wait"
    /\ wg = 0
    /\ closerPc' = "close"
    /\ UNCHANGED <<pureVars, chanVars, mainVars, wg, wpc, wfile, wres, warnings, calls>>

\* close(resultChan)
CloserClose ==
    /\ closerPc = "close"
    /\ resultClosed' = TRUE
    /\ closerPc' = "done"
    /\ UNCHANGED <<pureVars, workChan, workClosed, resultChan, mainVars,
                   wg, wpc, wfile, wres, warnings, calls>>

Next ==
    \/ Spawn \/ Send \/ CloseWork \/ GoCloser \/ Collect \/ Return
    \/ \E w \in Workers : WRecv(w) \/ WExit(w) \/ WAnalyze(w) \/ WSend(w)
    \/ CloserWait \/ CloserClose

Spec == Init /\ [][Next]_vars

InFiles(p) == \E i \in DOMAIN files : files[i] = p
CountResults(p) == Cardinality({i \in DOMAIN results : results[i].Path = p})
Succeeds(p) == AnalysisOf[p].err = ""

RECURSIVE SumOver(_, _)
SumOver(fn, S) ==
    IF S = {} THEN 0
    ELSE LET x == CHOOSE y \in S : TRUE IN fn[x] + SumOver(fn, S \ {x})

\* C1: for every worker count and file list, no path is ever handed to
\* analyzeFile twice, and when processFilesParallel returns every listed path
\* has been analysed exactly once and has exactly one outcome: one FileResult
\* in the returned list if its analysis succeeded, one warning and no
\* FileResult if it failed; so |results| + |warnings| = |files|.
EveryFileExactlyOnce ==
    /\ \A p \in Paths : calls[p] <= (IF InFiles(p) THEN 1 ELSE 0)
    /\ mainPc = "done" =>
          /\ \A p \in Paths : InFiles(p) =>
                /\ calls[p] = 1
                /\ IF Succeeds(p)
                   THEN CountResults(p) = 1 /\ warnings[p] = 0
                   ELSE CountResults(p) = 0 /\ warnings[p] = 1
          /\ Len(results) + SumOver(warnings, Paths) = Len(files)

\* a run of several workers over three files has returned, with a failed file
\* warned about and the other files' results delivered
EveryFileExactlyOnceWitness ==
    /\ mainPc = "done"
    /\ numWorkers >= 2
    /\ Len(files) = 3
    /\ SumOver(warnings, Paths) >= 1
    /\ Len(results) = 2

\* C2: when processFilesParallel returns all work has been drained: the work
\* queue is empty, every worker goroutine has terminated, nothing is left in
\* the result channel or in a worker's hands, and every FileResult produced
\* is in the returned list.
DrainedAtReturn ==
    mainPc = "done" =>
        /\ workChan = <<>>
        /\ resultChan = <<>>
        /\ wg = 0
        /\ \A w \in Workers : wpc[w] = (IF w <= numWorkers THEN "done" ELSE "idle")
        /\ \A w \in Workers : wres[w] = Nil
        /\ \A p \in Paths : (calls[p] > 0 /\ Succeeds(p)) => CountResults(p) = 1

\* the call has returned after several workers each sent a result
DrainedAtReturnWitness ==
    /\ mainPc = "done"
    /\ numWorkers >= 2
    /\ Len(results) >= 2
    /\ closerPc = "done"

\* what FileResult comparison looks at
Summary(r) ==
    [Path |-> r.Path, TotalLines |-> r.TotalLines, OriginalLines |-> r.OriginalLines,
     AvgSimilarity |-> r.AvgSimilarity]
SummarySet(rs) == {Summary(rs[i]) : i \in DOMAIN rs}

\* the list a single worker returns: the successful files' analyses in list order
RECURSIVE OneWorkerResults(_)
OneWorkerResults(fs) ==
    IF fs = <<>> THEN <<>>
    ELSE IF Succeeds(Head(fs))
    THEN <<AnalysisOf[Head(fs)].analysis>> \o OneWorkerResults(Tail(fs))
    ELSE OneWorkerResults(Tail(fs))

\* C3: for the same file list, a run with one worker and a run with any number
\* of workers return the same set of FileResults, whatever the interleaving:
\* the one-worker run returns the successful analyses in list order, and every
\* run returns the same FileResults, each once, in some order.
SameResultsForAnyWorkerCount ==
    mainPc = "done" =>
        /\ numWorkers = 1 => results = OneWorkerResults(files)
        /\ SummarySet(results) = SummarySet(OneWorkerResults(files))
        /\ Len(results) = Len(OneWorkerResults(files))

\* several workers returned the results in another order than one worker does
SameResultsForAnyWorkerCountWitness ==
    /\ mainPc = "done"
    /\ numWorkers > 1
    /\ Len(results) >= 2
    /\ results # OneWorkerResults(files)

(***************************************************************************)
(* SpecFair: processFilesParallel under a fair scheduler: a goroutine that *)
(* can take a step eventually takes one.                                   *)
(***************************************************************************)
MainStep == Spawn \/ Send \/ CloseWork \/ GoCloser \/ Collect \/ Return
WorkerStep(w) == WRecv(w) \/ WExit(w) \/ WAnalyze(w) \/ WSend(w)
CloserStep == CloserWait \/ CloserClose

SpecFair ==
    /\ Init
    /\ [][Next]_vars
    /\ WF_vars(MainStep)
    /\ \A w \in Workers : WF_vars(WorkerStep(w))
    /\ WF_vars(CloserStep)

AllReturned ==
    /\ mainPc = "done"
    /\ closerPc = "done"
    /\ \A w \in Workers : wpc[w] = (IF w <= numWorkers THEN "done" ELSE "idle")

\* C26: processFilesParallel terminates for every worker count N >= 1 and
\* every file list, an empty list and N greater than the number of files
\* included: under fair scheduling the caller returns, every worker exits and
\* the goroutine that closes the result channel ends.
EveryRunTerminates == <>AllReturned

\* a run of more workers than files has ended
EveryRunTerminatesWitness ==
    /\ AllReturned
    /\ Len(files) >= 1
    /\ numWorkers > Len(files)
    /\ Len(results) >= 1

\* a run on an empty file list has ended
EmptyRunTerminatesWitness ==
    /\ AllReturned
    /\ files = <<>>
    /\ numWorkers >= 2

ResultsFrom(w) ==
    /\ wpc[w] = "send"
    /\ wpc'[w] = "recv"
    /\ resultChan' = Append(resultChan, wres[w])

\* C28: results pass from the workers to the collector only through the
\* result channel: the returned list is appended to by the calling goroutine
\* alone, from the channel; the channel is closed only after every worker has
\* exited, so no worker sends on a closed channel; and the channel's capacity
\* being the number of files, a worker that is about to send finds room.
ResultsOnlyThroughChannel ==
    /\ [](/\ \A w \in Workers : wpc[w] # "panic"
          /\ resultClosed => \A w \in Workers : wpc[w] \in {"done", "idle"}
          /\ resultClosed => spawned = numWorkers
          /\ Len(resultChan) <= Len(files)
          /\ \A w \in Workers : wpc[w] = "send" => Len(resultChan) < Len(files))
    /\ [][/\ results' # results =>
               /\ mainPc = "collect"
               /\ resultChan # <<>>
               /\ results' = Append(results, Head(resultChan))
               /\ resultChan' = Tail(resultChan)
               /\ UNCHANGED <<wpc, wres, wfile>>
          /\ Len(resultChan') > Len(resultChan) => \E w \in Workers : ResultsFrom(w)
          /\ (resultClosed' /\ ~resultClosed) => closerPc = "close" /\ wg = 0]_vars

\* a worker is about to send while results of other workers wait in the
\* channel for the caller, which has not begun to collect
ResultsOnlyThroughChannelWitness ==
    /\ mainPc = "send"
    /\ numWorkers >= 2
    /\ Len(resultChan) >= 1
    /\ \E w \in Workers : wpc[w] = "send"

(***************************************************************************)
(* SpecFile: analyzeFile on every file of bounded length, for every answer *)
(* of the revision-history provider, followed by the aggregation of a      *)
(* result list that holds the file's analysis.                             *)
(***************************************************************************)
CurLineSet == {<<>>, Str1("U"), Str3("/", "/", "a")}
OldLineSet == {Str4("a", "a", "a", "a"), Str1("U")}

RECURSIVE SeqsOfLen(_, _)
SeqsOfLen(S, n) ==
    IF n = 0 THEN {<<>>}
    ELSE {Append(q, x) : q \in SeqsOfLen(S, n - 1), x \in S}

SeqsUpTo(S, n) == UNION {SeqsOfLen(S, k) : k \in 1..n}

PathOfExt(ext) == IF ext = ".go" THEN "f.go" ELSE "f.txt"

FileOf(ext, readable, content, blameErr, blameLen, historyErr, firstErr, firstContent) ==
    [path |-> PathOfExt(ext), ext |-> ext, readable |-> readable, content |-> content,
     blameErr |-> blameErr, blameLen |-> blameLen,
     historyErr |-> historyErr, commits |-> IF historyErr THEN <<>> ELSE <<"c2", "c1">>,
     firstErr |-> firstErr, firstContent |-> firstContent]

\* the revision list is fetched and holds no commit
NoCommits(f) == [f EXCEPT !.commits = <<>>]

\* oldest texts that begin with a comment line
OldTextsWithComment ==
    {<<Str3("/", "/", "a")>> \o t : t \in SeqsUpTo({Str4("a", "a", "a", "a")}, 2)}

FileInputs ==
    \* the file cannot be read, or git blame fails
    {FileOf(ext, readable, content, ~readable, 0, FALSE, FALSE, <<<<>>>>) :
        ext \in {".go", ".txt"}, readable \in BOOLEAN,
        content \in SeqsUpTo(CurLineSet, 1)}
    \cup
    \* blame covers one line less than, as many lines as, or one line more than
    \* the content; the history or the oldest text is missing
    {FileOf(ext, TRUE, content, FALSE, Len(content) + d, h = "history", h = "first", <<<<>>>>) :
        ext \in {".go", ".txt"}, content \in SeqsUpTo(CurLineSet, MaxLines),
        d \in {-1, 0, 1}, h \in {"history", "first"}}
    \cup
    {FileOf(ext, TRUE, content, FALSE, Len(content) + d, FALSE, FALSE, first) :
        ext \in {".go", ".txt"}, content \in SeqsUpTo(CurLineSet, MaxLines),
        d \in {-1, 0, 1}, first \in SeqsUpTo(OldLineSet, MaxLines)}
    \cup
    {NoCommits(FileOf(ext, TRUE, content, FALSE, Len(content) + d, FALSE, FALSE, <<<<>>>>)) :
        ext \in {".go", ".txt"}, content \in SeqsUpTo(CurLineSet, MaxLines), d \in {-1, 0}}
    \cup
    {FileOf(ext, TRUE, content, FALSE, Len(content), FALSE, FALSE, first) :
        ext \in {".go", ".txt"}, content \in SeqsUpTo(CurLineSet, MaxLines),
        first \in OldTextsWithComment}

\* result lists the file's analysis is appended to
OtherResults ==
    {<<>>, <<AnalysisOf["a.go"].analysis>>,
     <<AnalysisOf["c.txt"].analysis, AnalysisOf["a.go"].analysis>>}

InitFile ==
    /\ fileIn \in FileInputs
    /\ fileOut = NoValue
    /\ fileAgg = NoValue
    /\ SimIdle
    /\ AggIdle
    /\ TimelineIdle
    /\ TraceIdle
    /\ ChurnIdle
    /\ RunIdle
    /\ SchedIdle

CallAnalyzeFile ==
    /\ fileOut = NoValue
    /\ fileOut' = analyzeFile(fileIn)
    /\ UNCHANGED <<fileIn, fileAgg, simVars, aggVars, timelineVars, traceVars, churnVars, runVars, schedVars>>

\* analysis := aggregateResults(fileAnalyses), the file's analysis being one of them
CallAggregateWithFile ==
    /\ fileOut # NoValue
    /\ fileOut.err = ""
    /\ fileAgg = NoValue
    /\ \E others \in OtherResults :
          fileAgg' = aggregateResults(Append(others, fileOut.analysis))
    /\ UNCHANGED <<fileIn, fileOut, simVars, aggVars, timelineVars, traceVars, churnVars, runVars, schedVars>>

NextFile == CallAnalyzeFile \/ CallAggregateWithFile

SpecFile == InitFile /\ [][NextFile]_vars

Returned == fileOut # NoValue /\ fileOut.err = ""

\* the content git blame covers, and the 1-indexed positions of its lines the
\* classifier keeps
Covered(f) == SubSeq(f.content, 1, f.blameLen)
KeptPositions(f) ==
    {i \in 1..Len(Covered(f)) : ~IsBlankOrComment(Covered(f)[i], f.ext)}
TracedPositions(analysis) ==
    {analysis.LineHistories[i].CurrentLineNum : i \in DOMAIN analysis.LineHistories}

\* C6: for any FileResult produced by analyzeFile, totalLines equals the
\* classifier-kept line count: the LineProvenance sequence holds exactly one
\* entry for each line of the attribution-covered content that is neither
\* blank nor comment-only, and no entry for a line the classifier drops.
TotalLinesIsKeptCount ==
    Returned =>
        /\ fileOut.analysis.TotalLines = Cardinality(KeptPositions(fileIn))
        /\ TracedPositions(fileOut.analysis) = KeptPositions(fileIn)

\* the part of C6 the code keeps: one entry per non-blank covered line
TracedAreNonBlank ==
    Returned =>
        TracedPositions(fileOut.analysis) =
            {i \in 1..Len(Covered(fileIn)) : TrimSpace(Covered(fileIn)[i]) # <<>>}

OriginalEntries(analysis) ==
    {i \in DOMAIN analysis.LineHistories :
        FGeq(analysis.LineHistories[i].Similarity, MinimumSimilarityThreshold)}

\* C7: every FileResult has totalLines equal to the length of its
\* LineProvenance sequence and originalLines equal to the number of entries
\* whose similarity is >= 0.25 (0.25 included), hence 0 <= originalLines <=
\* totalLines; and a CodebaseResult aggregated from FileResults has
\* originalLines <= totalLines too.
FileResultCounts ==
    /\ Returned =>
          /\ fileOut.analysis.TotalLines = Len(fileOut.analysis.LineHistories)
          /\ fileOut.analysis.OriginalLines =
                 Cardinality(OriginalEntries(fileOut.analysis))
          /\ 0 <= fileOut.analysis.OriginalLines
          /\ fileOut.analysis.OriginalLines <= fileOut.analysis.TotalLines
    /\ fileAgg # NoValue =>
          /\ 0 <= fileAgg.OriginalLines
          /\ fileAgg.OriginalLines <= fileAgg.TotalLines

\* a file with two lines at exactly 0.25 (counted) and a line with no match
\* (similarity 0, not counted) has been analysed and aggregated with other
\* results
FileResultCountsWitness ==
    /\ Returned
    /\ fileAgg # NoValue
    /\ Len(fileAgg.FileAnalyses) = 3
    /\ fileOut.analysis.TotalLines = 3
    /\ fileOut.analysis.OriginalLines = 2
    /\ \E i \in DOMAIN fileOut.analysis.LineHistories :
          fileOut.analysis.LineHistories[i].Similarity = MinimumSimilarityThreshold
    /\ \E i \in DOMAIN fileOut.analysis.LineHistories :
          fileOut.analysis.LineHistories[i].Similarity = FZero

(***************************************************************************)
(* SpecAgg: aggregateResults on every list of bounded length of file       *)
(* analyses, and on a permutation of the list.                             *)
(***************************************************************************)
AggFile(path, content, blameLen, firstContent) ==
    [FileOf(".txt", TRUE, content, FALSE, blameLen, FALSE, FALSE, firstContent)
        EXCEPT !.path = path]

\* files whose analyses are aggregated
AggFiles ==
    {\* one line at 1 - 2/3, one line without a match
     AggFile("p.txt", <<Str3("/", "/", "a"), Str4("/", "/", "/", "/")>>, 2, <<Str1("a")>>),
     \* one line at 1 - 2/3
     AggFile("q.txt", <<Str3("/", "/", "a")>>, 1, <<Str1("a")>>),
     \* one unchanged line
     AggFile("r.txt", <<Str1("a")>>, 1, <<Str1("a")>>),
     \* blame covers the blank first line only: no line is traced
     AggFile("s.txt", <<<<>>, Str1("a")>>, 1, <<Str1("a")>>)}

AggPool == {analyzeFile(f).analysis : f \in AggFiles}

AggLists == {<<>>} \cup SeqsUpTo(AggPool, MaxAggFiles)

Bijections(n) == {p \in [1..n -> 1..n] : \A i, j \in 1..n : p[i] = p[j] => i = j}
Reorderings(list) == {[i \in 1..Len(list) |-> list[p[i]]] : p \in Bijections(Len(list))}

InitAgg ==
    /\ aggIn \in AggLists
    /\ aggPerm \in Reorderings(aggIn)
    /\ aggOut = NoValue
    /\ aggOutPerm = NoValue
    /\ SimIdle
    /\ FileIdle
    /\ TimelineIdle
    /\ TraceIdle
    /\ ChurnIdle
    /\ RunIdle
    /\ SchedIdle

CallAggregate ==
    /\ aggOut = NoValue
    /\ aggOut' = aggregateResults(aggIn)
    /\ UNCHANGED <<aggIn, aggPerm, aggOutPerm, simVars, fileVars, timelineVars, traceVars, churnVars, runVars, schedVars>>

CallAggregatePermuted ==
    /\ aggOutPerm = NoValue
    /\ aggOutPerm' = aggregateResults(aggPerm)
    /\ UNCHANGED <<aggIn, aggPerm, aggOut, simVars, fileVars, timelineVars, traceVars, churnVars, runVars, schedVars>>

NextAgg == CallAggregate \/ CallAggregatePermuted

SpecAgg == InitAgg /\ [][NextAgg]_vars

BothAggregated == aggOut # NoValue /\ aggOutPerm # NoValue

RECURSIVE SumTotalLines(_)
SumTotalLines(list) ==
    IF list = <<>> THEN 0 ELSE Head(list).TotalLines + SumTotalLines(Tail(list))

RECURSIVE SumOriginalLines(_)
SumOriginalLines(list) ==
    IF list = <<>> THEN 0 ELSE Head(list).OriginalLines + SumOriginalLines(Tail(list))

\* sum(avgSimilarity_f * totalLines_f) in float64, added in list order
RECURSIVE WeightedFrom(_, _)
WeightedFrom(list, acc) ==
    IF list = <<>> THEN acc
    ELSE WeightedFrom(Tail(list),
                      FAdd(acc, FMulInt(Head(list).AvgSimilarity, Head(list).TotalLines)))

\* sum(avgSimilarity_f * totalLines_f) without rounding
RECURSIVE ExactWeighted(_)
ExactWeighted(list) ==
    IF list = <<>> THEN BigZero
    ELSE BigAdd(BigMulSmall(Head(list).AvgSimilarity, Head(list).TotalLines),
                ExactWeighted(Tail(list)))

\* sum(avgSimilarity_f) / len: the mean of the per-file means
RECURSIVE SumOfMeans(_)
SumOfMeans(list) ==
    IF list = <<>> THEN FZero ELSE FAdd(Head(list).AvgSimilarity, SumOfMeans(Tail(list)))

\* C9: aggregateResults returns totalLines = sum of the files' totalLines,
\* originalLines = sum of the files' originalLines and averageSimilarity =
\* sum(avgSimilarity_f * totalLines_f) / sum(totalLines_f), the float64
\* quotient of the sum taken in list order, which is the exact line-weighted
\* mean up to rounding; with an empty input or a zero line total
\* averageSimilarity is 0.
AggregateSumsAndWeightedMean ==
    aggOut # NoValue =>
        /\ aggOut.TotalLines = SumTotalLines(aggIn)
        /\ aggOut.OriginalLines = SumOriginalLines(aggIn)
        /\ IF SumTotalLines(aggIn) = 0
           THEN aggOut.AverageSimilarity = FZero
           ELSE /\ aggOut.AverageSimilarity =
                      FDivInt(WeightedFrom(aggIn, FZero), SumTotalLines(aggIn))
                /\ Within(BigMulSmall(aggOut.AverageSimilarity, SumTotalLines(aggIn)),
                          ExactWeighted(aggIn),
                          Tiny(512 * Len(aggIn) * SumTotalLines(aggIn)))

\* three analyses of different line counts, one of them without lines, whose
\* line-weighted mean is not the mean of their means
AggregateSumsAndWeightedMeanWitness ==
    /\ aggOut # NoValue
    /\ Len(aggIn) = 3
    /\ \E i \in 1..3 : aggIn[i].TotalLines = 0
    /\ \E i \in 1..3 : aggIn[i].TotalLines = 2
    /\ aggOut.TotalLines = 3
    /\ aggOut.AverageSimilarity # FDivInt(SumOfMeans(aggIn), 3)

\* the empty list has been aggregated
AggregateEmptyWitness ==
    /\ aggOut # NoValue
    /\ aggIn = <<>>
    /\ aggOut.AverageSimilarity = FZero

(***************************************************************************)
(* SpecTimeline: AddSnapshotsToAnalysis and GenerateHistoricalSnapshots on *)
(* every repository history of bounded length.                             *)
(***************************************************************************)
\* git log, newest first: commit n is the newest, commit 1 the oldest
AllCommits(n) == [i \in 1..n |-> [Hash |-> n + 1 - i, Date |-> n + 1 - i]]

\* what GetCommitStats returns for a commit: an error, or the stats
StatSet ==
    {Nil,
     [additions |-> 0, deletions |-> 0],
     [additions |-> 400, deletions |-> 200],
     [additions |-> 3000, deletions |-> 0]}

Histories ==
    {[commitsErr |-> TRUE, allCommits |-> <<>>, stats |-> <<>>]}
    \cup
    {[commitsErr |-> FALSE, allCommits |-> AllCommits(Len(st)), stats |-> st] :
        st \in {<<>>} \cup SeqsUpTo(StatSet, MaxCommits)}

\* the analyses snapshots are added to
TimelineAnalyses ==
    {aggregateResults(<<>>)}
    \cup
    {aggregateResults(<<analyzeFile(f).analysis>>) :
        f \in {AggFile("p.txt", <<Str3("/", "/", "a"), Str4("/", "/", "/", "/")>>, 2,
                       <<Str1("a")>>),
               AggFile("r.txt", <<Str1("a")>>, 1, <<Str1("a")>>),
               AggFile("t.txt", <<Str4("/", "/", "/", "/")>>, 1, <<Str1("a")>>)}}

\* current percentages supplied to GenerateHistoricalSnapshots
PctSet == {RInt(0), RInt(5), RInt(60), RInt(100)}

InitTimeline ==
    /\ tlRepo \in Histories
    /\ tlRate \in 1..MaxStride
    /\ tlAnalysis \in TimelineAnalyses
    /\ tlOut = NoValue
    /\ tlPct \in PctSet
    /\ tlSnaps = NoValue
    /\ SimIdle
    /\ FileIdle
    /\ AggIdle
    /\ TraceIdle
    /\ ChurnIdle
    /\ RunIdle
    /\ SchedIdle

CallAddSnapshots ==
    /\ tlOut = NoValue
    /\ tlOut' = AddSnapshotsToAnalysis(tlAnalysis, tlRepo, tlRate)
    /\ UNCHANGED <<tlRepo, tlRate, tlAnalysis, tlPct, tlSnaps,
                   simVars, fileVars, aggVars, traceVars, churnVars, runVars, schedVars>>

CallGenerate ==
    /\ tlSnaps = NoValue
    /\ tlSnaps' = GenerateHistoricalSnapshots(tlRepo, tlRate, tlPct)
    /\ UNCHANGED <<tlRepo, tlRate, tlAnalysis, tlOut, tlPct,
                   simVars, fileVars, aggVars, traceVars, churnVars, runVars, schedVars>>

NextTimeline == CallAddSnapshots \/ CallGenerate

SpecTimeline == InitTimeline /\ [][NextTimeline]_vars

NonEmptyHistory == ~tlRepo.commitsErr /\ Len(tlRepo.allCommits) >= 1
Generated == tlSnaps # NoValue /\ tlSnaps.err = ""
Added == tlOut # NoValue /\ tlOut.err = ""
LastOf(snapshots) == snapshots[Len(snapshots)]

\* p = originalLines / totalLines * 100, or 0 when totalLines is 0
IsPercentageOf(p, analysis) ==
    IF analysis.TotalLines = 0 THEN p = <<0, 1>>
    ELSE p[1] * analysis.TotalLines = 100 * analysis.OriginalLines * p[2]

\* C4: for every non-empty revision list, every stride >= 1 and every supplied
\* current percentage, GenerateHistoricalSnapshots succeeds and its last
\* snapshot has exactly the supplied current percentage; called through
\* AddSnapshotsToAnalysis, that is originalLines / totalLines * 100 of the
\* analysis, or 0 when totalLines is 0.
LastSnapshotIsCurrentPct ==
    /\ (tlSnaps # NoValue /\ NonEmptyHistory) =>
          /\ tlSnaps.err = ""
          /\ Len(tlSnaps.snapshots) >= 1
          /\ LastOf(tlSnaps.snapshots).OriginalPct = tlPct
    /\ (tlOut # NoValue /\ NonEmptyHistory) =>
          /\ tlOut.err = ""
          /\ Len(tlOut.analysis.HistoricalSnapshots) >= 1
          /\ IsPercentageOf(LastOf(tlOut.analysis.HistoricalSnapshots).OriginalPct,
                            tlAnalysis)

\* snapshots were added for four commits sampled with stride 2, the newest
\* commit being appended after the sampling loop, to an analysis with half of
\* its lines original
LastSnapshotIsCurrentPctWitness ==
    /\ Added
    /\ Len(tlRepo.allCommits) = 4
    /\ tlRate = 2
    /\ Len(tlOut.analysis.HistoricalSnapshots) = 3
    /\ tlAnalysis.TotalLines = 2
    /\ LastOf(tlOut.analysis.HistoricalSnapshots).OriginalPct = RInt(50)
    /\ tlOut.analysis.HistoricalSnapshots[2].OriginalPct # RInt(50)

\* C5 as stated: every snapshot returned by GenerateHistoricalSnapshots, the
\* final one included, has a value >= 10.0.
NoSnapshotBelowTen ==
    Generated =>
        \A k \in 1..Len(tlSnaps.snapshots) :
            ~RLess(tlSnaps.snapshots[k].OriginalPct, RInt(10))

\* C5, amended: every snapshot returned by GenerateHistoricalSnapshots other
\* than the final one has a value >= 10.0; the final one has the supplied
\* current percentage, whatever it is.
NoEstimateBelowTen ==
    Generated =>
        /\ \A k \in 1..(Len(tlSnaps.snapshots) - 1) :
              ~RLess(tlSnaps.snapshots[k].OriginalPct, RInt(10))
        /\ LastOf(tlSnaps.snapshots).OriginalPct = tlPct

\* a timeline of three snapshots or more for a current percentage below 10,
\* with an estimate for a commit of high churn
NoEstimateBelowTenWitness ==
    /\ Generated
    /\ tlPct = RInt(5)
    /\ Len(tlSnaps.snapshots) >= 3
    /\ LastOf(tlSnaps.snapshots).OriginalPct = RInt(5)
    /\ \E k \in 1..(Len(tlSnaps.snapshots) - 1) :
          /\ TotalChurn(tlRepo.stats[tlSnaps.snapshots[k].CommitHash]) > 1000
          /\ RLess(tlSnaps.snapshots[k].OriginalPct, RInt(50))

\* 100 * (1 - r * 0.6) * churnFactor for the snapshot of 1-indexed position k
\* out of n, r being (k - 1) / (n - 1)
RawEstimate(k, n, churnFactor) ==
    RMul(RSub(RInt(100), RDivInt(RInt(60 * (k - 1)), n - 1)), churnFactor)

\* currentPct + (1 - r * 0.6) * (100 - currentPct) * 0.3
Anchored(k, n, currentPct) ==
    RAdd(currentPct,
         RMul(RSub(RInt(30), RDivInt(RInt(18 * (k - 1)), n - 1)),
              RDivInt(RSub(RInt(100), currentPct), 100)))

ChurnFactorOf(repo, snapshot) ==
    calculateChurnFactor(TotalChurn(repo.stats[snapshot.CommitHash]))

EmittedAsClaimed(value, raw, anchored, currentPct) ==
    /\ value = (IF RLess(raw, currentPct) THEN anchored ELSE raw)
    /\ ~RLess(value, currentPct)
    /\ ~RLess(RInt(100), value)

SnapshotHashes(snapshots) == [k \in 1..Len(snapshots) |-> snapshots[k].CommitHash]

\* every stride-th commit counted from the oldest, and the newest
SampledSet(n, stride) == {h \in 1..n : (h - 1) % stride = 0} \cup {n}

\* C21: for every non-empty revision list and stride S >= 1,
\* GenerateHistoricalSnapshots returns snapshots for every S-th revision
\* counted from the oldest plus the newest: ordered oldest to newest, starting
\* with the oldest and ending with the newest, no revision twice, between 1
\* and len(revisions) entries; ageRatio is 0 for the first entry and 1 for the
\* last, and 1 for a single entry.
SamplesEveryStrideAndNewest ==
    (tlSnaps # NoValue /\ NonEmptyHistory) =>
        /\ tlSnaps.err = ""
        /\ Len(tlSnaps.snapshots) >= 1
        /\ Len(tlSnaps.snapshots) <= Len(tlRepo.allCommits)
        /\ SnapshotHashes(tlSnaps.snapshots)[1] = 1
        /\ SnapshotHashes(tlSnaps.snapshots)[Len(tlSnaps.snapshots)] = Len(tlRepo.allCommits)
        /\ \A k \in 1..(Len(tlSnaps.snapshots) - 1) :
              SnapshotHashes(tlSnaps.snapshots)[k] < SnapshotHashes(tlSnaps.snapshots)[k + 1]
        /\ {SnapshotHashes(tlSnaps.snapshots)[k] : k \in 1..Len(tlSnaps.snapshots)}
               = SampledSet(Len(tlRepo.allCommits), tlRate)
        /\ \A k \in 1..Len(tlSnaps.snapshots) :
              tlSnaps.snapshots[k].Date
                  = tlRepo.allCommits[Len(tlRepo.allCommits) + 1
                                      - tlSnaps.snapshots[k].CommitHash].Date
        /\ AgeRatio(Len(tlSnaps.snapshots) - 1, Len(tlSnaps.snapshots)) = RInt(1)
        /\ Len(tlSnaps.snapshots) >= 2 => AgeRatio(0, Len(tlSnaps.snapshots)) = RInt(0)

\* four commits sampled with stride 3: the loop reaches the newest commit,
\* which is not appended a second time
SamplesEveryStrideAndNewestWitness ==
    /\ Generated
    /\ Len(tlRepo.allCommits) = 4
    /\ tlRate = 3
    /\ SnapshotHashes(tlSnaps.snapshots) = <<1, 4>>

\* four commits sampled with stride 2: the newest commit is appended
SamplesAppendNewestWitness ==
    /\ Generated
    /\ Len(tlRepo.allCommits) = 4
    /\ tlRate = 2
    /\ SnapshotHashes(tlSnaps.snapshots) = <<1, 3, 4>>

\* a single commit: one snapshot, of age ratio 1
SamplesSingleWitness ==
    /\ Generated
    /\ Len(tlRepo.allCommits) = 1
    /\ Len(tlSnaps.snapshots) = 1
    /\ AgeRatio(0, 1) = RInt(1)

ZeroStats == [additions |-> 0, deletions |-> 0]

\* the repository with every missing churn report replaced by a report of 0
\* additions and 0 deletions
WithZeroStats(repo) ==
    [repo EXCEPT !.stats = [h \in DOMAIN repo.stats |->
                               IF repo.stats[h] = Nil THEN ZeroStats ELSE repo.stats[h]]]

StatsMissing(repo, snapshot) == repo.stats[snapshot.CommitHash] = Nil

\* C23: when churn stats for a sampled revision cannot be obtained,
\* GenerateHistoricalSnapshots counts its churn as 0 (churnFactor 1.0), still
\* emits its snapshot and returns the full sequence without error; the value
\* is the one emitted for a revision reported with 0 additions and 0 deletions.
MissingStatsAreZeroChurn ==
    (tlSnaps # NoValue /\ NonEmptyHistory) =>
        /\ tlSnaps.err = ""
        /\ tlSnaps = GenerateHistoricalSnapshots(WithZeroStats(tlRepo), tlRate, tlPct)
        /\ {tlSnaps.snapshots[k].CommitHash : k \in 1..Len(tlSnaps.snapshots)}
               = SampledSet(Len(tlRepo.allCommits), tlRate)
        /\ \A k \in 1..(Len(tlSnaps.snapshots) - 1) :
              StatsMissing(tlRepo, tlSnaps.snapshots[k]) =>
                  EmittedAsClaimed(tlSnaps.snapshots[k].OriginalPct,
                                   RawEstimate(k, Len(tlSnaps.snapshots), RInt(1)),
                                   Anchored(k, Len(tlSnaps.snapshots), tlPct),
                                   tlPct)

\* three snapshots or more, the stats of a sampled revision in the middle
\* being missing: its snapshot carries the estimate for a churn factor of 1.0
MissingStatsAreZeroChurnWitness ==
    /\ Generated
    /\ tlPct = RInt(5)
    /\ Len(tlSnaps.snapshots) >= 3
    /\ StatsMissing(tlRepo, tlSnaps.snapshots[2])
    /\ ~StatsMissing(tlRepo, tlSnaps.snapshots[1])
    /\ tlSnaps.snapshots[2].OriginalPct = RawEstimate(2, Len(tlSnaps.snapshots), RInt(1))

\* the fields of a CodebaseAnalysis other than its snapshots
Totals(analysis) ==
    [TotalLines |-> analysis.TotalLines, OriginalLines |-> analysis.OriginalLines,
     AverageSimilarity |-> analysis.AverageSimilarity,
     FileAnalyses |-> analysis.FileAnalyses]

\* C27: AddSnapshotsToAnalysis changes nothing but the snapshot sequence, and
\* only on success: when the revision list cannot be fetched or is empty it
\* returns an error and the analysis is as aggregation produced it, without
\* snapshots; on success the snapshots are replaced and the totals and the
\* file analyses are unchanged. There are no snapshots before the call.
OnlySnapshotsChange ==
    /\ tlAnalysis # NoValue /\ tlOut = NoValue => tlAnalysis.HistoricalSnapshots = <<>>
    /\ tlOut # NoValue =>
          /\ Totals(tlOut.analysis) = Totals(tlAnalysis)
          /\ IF tlRepo.commitsErr \/ Len(tlRepo.allCommits) = 0
             THEN /\ tlOut.err # ""
                  /\ tlOut.analysis = tlAnalysis
                  /\ tlOut.analysis.HistoricalSnapshots = <<>>
             ELSE /\ tlOut.err = ""
                  /\ Len(tlOut.analysis.HistoricalSnapshots) >= 1
                  /\ tlOut.analysis.HistoricalSnapshots
                         = GenerateHistoricalSnapshots(tlRepo, tlRate,
                                                       CurrentPct(tlAnalysis)).snapshots

\* the revision list is empty: the analysis of a file keeps its totals and
\* its file analyses, and has no snapshots
OnlySnapshotsChangeWitness ==
    /\ tlOut # NoValue
    /\ ~tlRepo.commitsErr
    /\ Len(tlRepo.allCommits) = 0
    /\ tlOut.err # ""
    /\ Len(tlOut.analysis.FileAnalyses) = 1
    /\ tlOut.analysis.TotalLines = 2
    /\ tlOut.analysis.HistoricalSnapshots = <<>>

\* the revision list cannot be fetched
SnapshotsFailedFetchWitness ==
    /\ tlOut # NoValue
    /\ tlRepo.commitsErr
    /\ tlOut.err # ""
    /\ Len(tlOut.analysis.FileAnalyses) = 1

\* snapshots were added to the analysis of a file
SnapshotsAddedWitness ==
    /\ Added
    /\ Len(tlOut.analysis.HistoricalSnapshots) = 3
    /\ Len(tlOut.analysis.FileAnalyses) = 1
    /\ tlOut.analysis.TotalLines = 2

(***************************************************************************)
(* SpecTrace: findSimilarLineInRange and TraceLineHistory for a current    *)
(* line at every position, against oldest texts of bounded length.         *)
(***************************************************************************)
Str5(a, b, c, d, e) == <<a, b, c, d, e>>

\* the current line
TraceTarget == Str3("/", "/", "a")
\* lines of the oldest text, by their similarity to the current line
SameLine == Str3("/", "/", "a")                \* 1.0
ThirdLine == Str1("a")                         \* 1 - 2/3
QuarterLine == Str4("a", "a", "a", "a")        \* 0.25
LowLine == Str5("a", "a", "a", "a", "a")       \* 0.2
OtherLine == Str1("U")                         \* 0.0

\* the two lines of an oldest text that are not OtherLine: the first on the
\* first line or the line before the last, the second on the last line
LinePairs ==
    {<<SameLine, SameLine>>, <<SameLine, ThirdLine>>, <<ThirdLine, SameLine>>,
     <<ThirdLine, ThirdLine>>, <<QuarterLine, LowLine>>, <<SameLine, LowLine>>,
     <<LowLine, SameLine>>}

OldText(n, q, c) ==
    [i \in 1..n |-> IF i = q THEN c[1] ELSE IF i = n THEN c[2] ELSE OtherLine]

OldTexts(maxLen) ==
    {<<<<>>>>}
    \cup {OldText(n, 1, c) : n \in 1..maxLen, c \in LinePairs}
    \cup {OldText(n, n - 1, c) : n \in 1..maxLen, c \in LinePairs}

TracedFile(historyErr, commits, firstErr, firstContent) ==
    [FileOf(".txt", TRUE, <<TraceTarget>>, FALSE, 1, historyErr, firstErr, firstContent)
        EXCEPT !.commits = commits]

TraceInputs ==
    {TracedFile(FALSE, <<"c2", "c1">>, FALSE, first) : first \in {<<>>} \cup OldTexts(MaxOldLen)}
    \cup
    \* the revision list is missing or empty, or the oldest text is missing
    {TracedFile(m = "historyErr", IF m = "firstErr" THEN <<"c2", "c1">> ELSE <<>>,
                m = "firstErr", first) :
        m \in {"historyErr", "noCommits", "firstErr"}, first \in OldTexts(2)}

\* the positions a current line can have: up to past the window of the last
\* line of the longest oldest text
TracePositions == 1..(MaxOldLen + LineMovementWindow + 1)

InitTrace ==
    /\ trFile \in TraceInputs
    /\ trLine = TraceTarget
    /\ trNum \in TracePositions
    /\ trFound = NoValue
    /\ trHist = NoValue
    /\ SimIdle
    /\ FileIdle
    /\ AggIdle
    /\ TimelineIdle
    /\ ChurnIdle
    /\ RunIdle
    /\ SchedIdle

CallFind ==
    /\ trFound = NoValue
    /\ trFound' = findSimilarLineInRange(trFile.firstContent, trNum, trLine)
    /\ UNCHANGED <<trFile, trLine, trNum, trHist,
                   simVars, fileVars, aggVars, timelineVars, churnVars, runVars, schedVars>>

\* strings.Split never returns an empty list of lines
CallTrace ==
    /\ trHist = NoValue
    /\ trFile.firstContent # <<>>
    /\ trHist' = TraceLineHistory(trFile, trLine, trNum,
                                  [CommitHash |-> BlameHashes[1], LineNum |-> trNum,
                                   CommitDate |-> 1])
    /\ UNCHANGED <<trFile, trLine, trNum, trFound,
                   simVars, fileVars, aggVars, timelineVars, churnVars, runVars, schedVars>>

NextTrace == CallFind \/ CallTrace

SpecTrace == InitTrace /\ [][NextTrace]_vars

\* positions max(1, p - 10) .. min(len, p + 10)
WindowOf(lines, p) == {q \in 1..Len(lines) : q >= p - 10 /\ q <= p + 10}
SimTo(lines, target, q) == CalculateSimilarity(target, lines[q])
\* the positions of the window whose line has similarity >= 0.25
Qualifying(lines, p, target) ==
    {q \in WindowOf(lines, p) : FGeq(SimTo(lines, target, q), FDivInt(FOne, 4))}
\* the lowest position among those of greatest similarity
BestOf(lines, target, Q) ==
    CHOOSE q \in Q : \A r \in Q :
        \/ FLess(SimTo(lines, target, r), SimTo(lines, target, q))
        \/ (SimTo(lines, target, r) = SimTo(lines, target, q) /\ q <= r)

FoundIsBest(lines, target, Q, found) ==
    IF Q = {} THEN found = [line |-> <<>>, num |-> 0]
    ELSE /\ found.num = BestOf(lines, target, Q)
         /\ found.line = lines[found.num]

\* C14: findSimilarLineInRange returns, among the lines of the oldest text at
\* positions max(1, p-10) .. min(len, p+10), the line of greatest similarity
\* to the current line provided that similarity is >= 0.25, the one at the
\* lowest position when several share it, with the position of that line;
\* and no line ("", 0) when no line of the window qualifies.
FindReturnsBestInWindow ==
    trFound # NoValue =>
        FoundIsBest(trFile.firstContent, trLine,
                    Qualifying(trFile.firstContent, trNum, trLine), trFound)

\* two lines of the same similarity in a window that does not cover the whole
\* text: the first is returned
FindReturnsBestInWindowWitness ==
    /\ trFound # NoValue
    /\ Len(trFile.firstContent) = MaxOldLen
    /\ WindowOf(trFile.firstContent, trNum) # 1..Len(trFile.firstContent)
    /\ Cardinality(Qualifying(trFile.firstContent, trNum, trLine)) = 2
    /\ trFound.num < Len(trFile.firstContent)
    /\ trFound.line = ThirdLine
    /\ trFile.firstContent[Len(trFile.firstContent)] = ThirdLine

\* the revision list and the oldest text of the file are available
ProviderAnswers(f) == ~f.historyErr /\ Len(f.commits) > 0 /\ ~f.firstErr

IdenticalAt(lines, target) == {q \in 1..Len(lines) : lines[q] = target}
SimilarAt(lines, target) ==
    {q \in 1..Len(lines) : FGeq(SimTo(lines, target, q), FDivInt(FOne, 4))}

Distance(p, q) == IF p >= q THEN p - q ELSE q - p

MovedLine(hist, p, q) ==
    IF Distance(p, q) <= 10
    THEN hist.Similarity = FOne /\ hist.OriginalLineNum = q /\ hist.OriginalLine # <<>>
    ELSE /\ hist.Similarity = FZero /\ hist.OriginalLine = <<>>
         /\ ~(hist.Similarity = FOne /\ hist.OriginalLineNum = q)

\* the only line of the oldest text that reaches similarity 0.25 with the
\* current line is identical to it
OnlyIdentical(lines, target) ==
    /\ Cardinality(IdenticalAt(lines, target)) = 1
    /\ SimilarAt(lines, target) = IdenticalAt(lines, target)

\* C15: for a current line at position p whose identical text is at position
\* q of the oldest revision, no other line of it reaching similarity 0.25:
\* TraceLineHistory yields similarity 1.0 with origin position q if and only
\* if |p - q| <= 10; when |p - q| > 10 the origin is the empty text and the
\* similarity is 0.0.
MovedLineFoundWithinTen ==
    (trHist # NoValue /\ ProviderAnswers(trFile)
        /\ OnlyIdentical(trFile.firstContent, trLine)) =>
        MovedLine(trHist, trNum,
                  CHOOSE q \in 1..Len(trFile.firstContent) : trFile.firstContent[q] = trLine)

\* the identical line is 11 positions above the current one: no match
MovedLineFoundWithinTenWitness ==
    /\ trHist # NoValue
    /\ ProviderAnswers(trFile)
    /\ OnlyIdentical(trFile.firstContent, trLine)
    /\ trFile.firstContent[1] = trLine
    /\ trNum = 12
    /\ trHist.Similarity = FZero
    /\ trHist.OriginalLine = <<>>

\* the identical line is 10 positions below the current one: it is found
MovedLineWithinTenWitness ==
    /\ trHist # NoValue
    /\ ProviderAnswers(trFile)
    /\ OnlyIdentical(trFile.firstContent, trLine)
    /\ trNum = 2
    /\ trHist.OriginalLineNum = 12
    /\ trHist.Similarity = FOne

(***************************************************************************)
(* SpecFile: the line histories of an analysed file.                       *)
(***************************************************************************)
HistoryAt(analysis, p) ==
    CHOOSE h \in {analysis.LineHistories[i] : i \in DOMAIN analysis.LineHistories} :
        h.CurrentLineNum = p

\* the text of the traced line stands at the same position of the oldest text
UnchangedLine(f, hist) ==
    /\ hist.CurrentLineNum <= Len(f.firstContent)
    /\ f.firstContent[hist.CurrentLineNum] = f.content[hist.CurrentLineNum]

\* the text of the traced line has similarity 0 to the text that was at its
\* position in the oldest text
ReplacedLine(f, hist) ==
    /\ hist.CurrentLineNum <= Len(f.firstContent)
    /\ CalculateSimilarity(f.firstContent[hist.CurrentLineNum],
                           f.content[hist.CurrentLineNum]) = FZero

\* no line of the oldest text within 10 positions resembles the traced line
UnmatchedLine(f, hist) ==
    ~\E q \in WindowOf(f.firstContent, hist.CurrentLineNum) :
        FGeq(SimTo(f.firstContent, f.content[hist.CurrentLineNum], q), FDivInt(FOne, 4))

\* the entry has the similarity and is among the entries originalLines counts
CountedWith(analysis, i, similarity) ==
    /\ analysis.LineHistories[i].Similarity = similarity
    /\ i \in OriginalEntries(analysis)

\* the entry has similarity 0.0 and is not among the entries originalLines counts
ExcludedAtZero(analysis, i) ==
    /\ analysis.LineHistories[i].Similarity = FZero
    /\ i \notin OriginalEntries(analysis)

Fallback(f) == f.historyErr \/ Len(f.commits) = 0 \/ f.firstErr

\* TraceFileLines gets as far as its loop
Traceable(f) ==
    f.readable /\ Len(CodeLines(f)) > 0 /\ ~f.blameErr /\ f.blameLen <= Len(f.content)

NonBlankCovered(f) == {i \in 1..Len(Covered(f)) : TrimSpace(Covered(f)[i]) # <<>>}

IsOwnOrigin(hist) ==
    /\ hist.OriginalLine = hist.CurrentLine
    /\ hist.OriginalLineNum = hist.CurrentLineNum
    /\ hist.Similarity = FOne

\* C17: when the revision list of a file cannot be fetched or is empty, or
\* its oldest text cannot be fetched, the file's analysis does not fail and
\* every line of it is traced as its own origin: originText = currentText,
\* originPosition = currentPosition, similarity 1.0.
FallbackIsOwnOrigin ==
    (fileOut # NoValue /\ Fallback(fileIn) /\ Traceable(fileIn)) =>
        /\ fileOut.err = ""
        /\ TracedPositions(fileOut.analysis) = NonBlankCovered(fileIn)
        /\ fileOut.analysis.TotalLines = Cardinality(NonBlankCovered(fileIn))
        /\ \A i \in DOMAIN fileOut.analysis.LineHistories :
              /\ IsOwnOrigin(fileOut.analysis.LineHistories[i])
              /\ fileOut.analysis.LineHistories[i].CurrentLine
                     = fileIn.content[fileOut.analysis.LineHistories[i].CurrentLineNum]

\* the revision list is fetched and empty, and three lines were traced
FallbackIsOwnOriginWitness ==
    /\ Returned
    /\ ~fileIn.historyErr
    /\ Len(fileIn.commits) = 0
    /\ fileOut.analysis.TotalLines = 3
    /\ \A i \in DOMAIN fileOut.analysis.LineHistories :
          IsOwnOrigin(fileOut.analysis.LineHistories[i])

\* the revision list cannot be fetched
HistoryErrIsOwnOriginWitness ==
    /\ Returned
    /\ fileIn.historyErr
    /\ fileOut.analysis.TotalLines = 2
    /\ \A i \in DOMAIN fileOut.analysis.LineHistories :
          IsOwnOrigin(fileOut.analysis.LineHistories[i])

\* the oldest text cannot be fetched
FirstErrIsOwnOriginWitness ==
    /\ Returned
    /\ fileIn.firstErr
    /\ fileOut.analysis.TotalLines = 2
    /\ \A i \in DOMAIN fileOut.analysis.LineHistories :
          IsOwnOrigin(fileOut.analysis.LineHistories[i])

\* git blame was asked for and answered
Blamed(f) == f.readable /\ Len(CodeLines(f)) > 0 /\ ~f.blameErr

\* C18: when the attribution covers more lines than the content has, the
\* file fails with an error and no FileResult; when it covers fewer lines
\* the file does not fail, only the first len(attribution) lines are traced,
\* traced line i carries attribution entry i, and no line beyond the covered
\* length is in the FileResult.
BlameLengthMismatch ==
    (fileOut # NoValue /\ Blamed(fileIn)) =>
        IF fileIn.blameLen > Len(fileIn.content)
        THEN fileOut.err # "" /\ fileOut.analysis = Nil
        ELSE /\ fileOut.err = ""
             /\ TracedPositions(fileOut.analysis) = NonBlankCovered(fileIn)
             /\ \A i \in DOMAIN fileOut.analysis.LineHistories :
                   /\ fileOut.analysis.LineHistories[i].CurrentLineNum <= fileIn.blameLen
                   /\ fileOut.analysis.LineHistories[i].CurrentLine
                          = fileIn.content[fileOut.analysis.LineHistories[i].CurrentLineNum]
                   /\ fileOut.analysis.LineHistories[i].LastCommitHash
                          = GetBlame(fileIn)[fileOut.analysis.LineHistories[i].CurrentLineNum].CommitHash
                   /\ fileOut.analysis.LineHistories[i].LastCommitDate
                          = GetBlame(fileIn)[fileOut.analysis.LineHistories[i].CurrentLineNum].CommitDate

\* blame covers two of three lines, the third being code: two are traced
BlameLengthMismatchWitness ==
    /\ Returned
    /\ Len(fileIn.content) = 3
    /\ fileIn.blameLen = 2
    /\ TrimSpace(fileIn.content[3]) # <<>>
    /\ TracedPositions(fileOut.analysis) = {1, 2}
    /\ HistoryAt(fileOut.analysis, 2).LastCommitHash = BlameHashes[2]

\* blame covers one line more than the content has: the file fails
BlameLongerWitness ==
    /\ fileOut # NoValue
    /\ Blamed(fileIn)
    /\ fileIn.blameLen = Len(fileIn.content) + 1
    /\ fileOut.err # ""

\* C19: a file for which zero lines remain to be traced makes analyzeFile
\* return an error and no FileResult, so every FileResult has totalLines >= 1.
EveryFileResultHasLines ==
    /\ Returned => fileOut.analysis.TotalLines >= 1
    /\ (fileOut # NoValue /\ Blamed(fileIn) /\ fileIn.blameLen <= Len(fileIn.content)
           /\ NonBlankCovered(fileIn) = {}) => fileOut.err # ""

\* a FileResult without lines has been returned and aggregated
FileResultWithoutLines ==
    /\ Returned
    /\ fileOut.analysis.TotalLines = 0
    /\ fileAgg # NoValue

(***************************************************************************)
(* SpecTrace: the similarity and the position of the origin.               *)
(***************************************************************************)
\* C29: every line history TraceLineHistory produces for a non-blank current
\* line has a similarity that is exactly 0, with an empty origin text, or is
\* >= 0.25, with a non-empty one; none lies strictly between 0 and 0.25, so
\* the lines counted as original are the lines with a non-empty origin text.
SimilarityZeroOrOriginal ==
    trHist # NoValue =>
        /\ \/ trHist.Similarity = FZero /\ trHist.OriginalLine = <<>>
           \/ FGeq(trHist.Similarity, FDivInt(FOne, 4)) /\ trHist.OriginalLine # <<>>
        /\ ~(FLess(FZero, trHist.Similarity) /\ FLess(trHist.Similarity, FDivInt(FOne, 4)))
        /\ IsOriginal(trHist.Similarity) <=> trHist.OriginalLine # <<>>
        /\ Fallback(trFile) => trHist.Similarity = FOne

\* the most similar line of the window has a similarity between 0 and 0.25:
\* no origin, similarity 0
SimilarityZeroOrOriginalWitness ==
    /\ trHist # NoValue
    /\ ProviderAnswers(trFile)
    /\ trNum = 12
    /\ Len(trFile.firstContent) = 12
    /\ trFile.firstContent[12] = LowLine
    /\ FLess(FZero, SimTo(trFile.firstContent, trLine, 12))
    /\ FLess(SimTo(trFile.firstContent, trLine, 12), FDivInt(FOne, 4))
    /\ Qualifying(trFile.firstContent, trNum, trLine) = {}
    /\ trHist.Similarity = FZero
    /\ trHist.OriginalLine = <<>>

\* the best line of the window has similarity 0.25 exactly: it is the origin
SimilarityAtThresholdWitness ==
    /\ trHist # NoValue
    /\ ProviderAnswers(trFile)
    /\ trHist.OriginalLine = QuarterLine
    /\ trHist.Similarity = FDivInt(FOne, 4)

\* the 0-indexed positions the search loop reads
ReadIndices(lines, targetLineNum) ==
    IF Len(lines) = 0 THEN {}
    ELSE SearchStart(targetLineNum - 1)..SearchEnd(targetLineNum - 1, Len(lines))

NoMatch == [line |-> <<>>, num |-> 0]

\* C30: findSimilarLineInRange never reads outside the oldest text, for any
\* position p >= 1 and any length, an empty text and p > length + 10 (no
\* match is reported then) included; a match at position q has
\* max(1, p-10) <= q <= min(length, p+10); and when TraceLineHistory finds no
\* match the origin position is the current position.
FindStaysInsideText ==
    /\ trFile # NoValue =>
          \A i \in ReadIndices(trFile.firstContent, trNum) :
              i >= 0 /\ i < Len(trFile.firstContent)
    /\ trFound # NoValue =>
          /\ trFound # NoMatch =>
                /\ trFound.num >= 1 /\ trFound.num >= trNum - 10
                /\ trFound.num <= Len(trFile.firstContent) /\ trFound.num <= trNum + 10
                /\ trFound.line = trFile.firstContent[trFound.num]
          /\ (trFile.firstContent = <<>> \/ trNum > Len(trFile.firstContent) + 10)
                => trFound = NoMatch
    /\ (trHist # NoValue /\ ProviderAnswers(trFile) /\ trHist.OriginalLine = <<>>) =>
          trHist.OriginalLineNum = trNum

\* a search from a position more than 10 lines past the end of a text that
\* holds the current line: nothing is read and no match is reported
FindStaysInsideTextWitness ==
    /\ trFound = NoMatch
    /\ Len(trFile.firstContent) = 2
    /\ trFile.firstContent[1] = trLine
    /\ trNum = 13
    /\ ReadIndices(trFile.firstContent, trNum) = {}

\* a search in an empty text
FindInEmptyTextWitness ==
    /\ trFound = NoMatch
    /\ trFile.firstContent = <<>>

\* a match at the upper end of a window cut at the last line
FindAtLastLineWitness ==
    /\ trFound # NoValue
    /\ trFound # NoMatch
    /\ trFound.num = Len(trFile.firstContent)
    /\ trNum + 10 > Len(trFile.firstContent)
    /\ trNum < trFound.num

\* no match: the origin position is the current position
NoMatchKeepsPositionWitness ==
    /\ trHist # NoValue
    /\ ProviderAnswers(trFile)
    /\ trHist.OriginalLine = <<>>
    /\ trHist.OriginalLineNum = trNum
    /\ trNum = 12

(***************************************************************************)
(* SpecChurn: calculateChurnFactor on two churn values.                    *)
(***************************************************************************)
\* churn values on both sides of every branch of calculateChurnFactor
ChurnSet == {0, 50, 51, 125, 200, 201, 600, 1000, 1001, 2000, 3000, 5000, 9000}

InitChurn ==
    /\ churnA \in ChurnSet
    /\ churnB \in ChurnSet
    /\ churnA <= churnB
    /\ factorA = NoValue
    /\ factorB = NoValue
    /\ SimIdle
    /\ FileIdle
    /\ AggIdle
    /\ TimelineIdle
    /\ TraceIdle
    /\ RunIdle
    /\ SchedIdle

CallChurnFactorA ==
    /\ factorA = NoValue
    /\ factorA' = calculateChurnFactor(churnA)
    /\ UNCHANGED <<churnA, churnB, factorB, simVars, fileVars, aggVars, timelineVars,
                   traceVars, runVars, schedVars>>

CallChurnFactorB ==
    /\ factorB = NoValue
    /\ factorB' = calculateChurnFactor(churnB)
    /\ UNCHANGED <<churnA, churnB, factorA, simVars, fileVars, aggVars, timelineVars,
                   traceVars, runVars, schedVars>>

NextChurn == CallChurnFactorA \/ CallChurnFactorB

SpecChurn == InitChurn /\ [][NextChurn]_vars

BothFactors == factorA # NoValue /\ factorB # NoValue

\* x <= y
RLeq(x, y) == ~RLess(y, x)

\* C25: calculateChurnFactor never increases as churn grows: 1.0 for churn
\* <= 50, from 1.0 to 0.7 over 50..200, from 0.7 to 0.5 over 200..1000,
\* between 0.5 and 0.3 above 1000; for c1 <= c2 the factor of c2 is <= the
\* factor of c1.
ChurnFactorNeverIncreases ==
    BothFactors =>
        /\ RLeq(factorB, factorA)
        /\ churnB <= 50 => factorB = RInt(1)
        /\ (churnB > 50 /\ churnB <= 200) => RLeq(<<7, 10>>, factorB) /\ RLeq(factorB, RInt(1))
        /\ (churnB > 200 /\ churnB <= 1000) => RLeq(<<1, 2>>, factorB) /\ RLeq(factorB, <<7, 10>>)
        /\ churnB > 1000 => RLeq(<<3, 10>>, factorB) /\ RLeq(factorB, <<1, 2>>)

\* what the code keeps: the factor never increases up to a churn of 1000 and
\* never increases above it, where it lies between 0.3 and 0.8
ChurnFactorNeverIncreasesWithinBranches ==
    BothFactors =>
        /\ (churnB <= 1000 \/ churnA > 1000) => RLeq(factorB, factorA)
        /\ churnB <= 50 => factorB = RInt(1)
        /\ (churnB > 50 /\ churnB <= 200) => RLeq(<<7, 10>>, factorB) /\ RLeq(factorB, RInt(1))
        /\ (churnB > 200 /\ churnB <= 1000) => RLeq(<<1, 2>>, factorB) /\ RLeq(factorB, <<7, 10>>)
        /\ churnB > 1000 => RLess(<<3, 10>>, factorB) /\ RLess(factorB, <<4, 5>>)

\* the factor of a churn of 1001 is above the factor of a churn of 1000
ChurnFactorJump ==
    /\ BothFactors
    /\ churnA = 1000
    /\ churnB = 1001
    /\ factorA = <<1, 2>>
    /\ RLess(<<3, 4>>, factorB)

(***************************************************************************)
(* SpecSim: CalculateSimilarity on every pair of strings of bounded length.*)
(***************************************************************************)
InitSim ==
    /\ simA \in StringsUpTo(MaxStrLen)
    /\ simB \in StringsUpTo(MaxStrLen)
    /\ simAB = NoValue
    /\ simBA = NoValue
    /\ FileIdle
    /\ AggIdle
    /\ TimelineIdle
    /\ TraceIdle
    /\ ChurnIdle
    /\ RunIdle
    /\ SchedIdle

CallSimAB ==
    /\ simAB = NoValue
    /\ simAB' = CalculateSimilarity(simA, simB)
    /\ UNCHANGED <<simA, simB, simBA, fileVars, aggVars, timelineVars, traceVars, churnVars, runVars, schedVars>>

CallSimBA ==
    /\ simBA = NoValue
    /\ simBA' = CalculateSimilarity(simB, simA)
    /\ UNCHANGED <<simA, simB, simAB, fileVars, aggVars, timelineVars, traceVars, churnVars, runVars, schedVars>>

NextSim == CallSimAB \/ CallSimBA

SpecSim == InitSim /\ [][NextSim]_vars


\* the text of s between its first and its last non-space rune
NonSpaceAt(s) == {i \in 1..Len(s) : s[i] # " "}
Lowest(S) == CHOOSE i \in S : \A j \in S : i <= j
Highest(S) == CHOOSE i \in S : \A j \in S : j <= i
Core(s) ==
    IF NonSpaceAt(s) = {} THEN <<>>
    ELSE SubSeq(s, Lowest(NonSpaceAt(s)), Highest(NonSpaceAt(s)))

\* C11: similarity(a, b) is 1.0 whenever a and b are equal after trimming
\* leading and trailing white space, in particular similarity(x, x) = 1.0:
\* indentation or trailing white space alone never lowers similarity.
TrimmedEqualIsOne ==
    /\ (simAB # NoValue /\ Core(simA) = Core(simB)) => simAB = FOne
    /\ (simBA # NoValue /\ Core(simA) = Core(simB)) => simBA = FOne

\* a line and the same line with other leading and trailing white space
TrimmedEqualIsOneWitness ==
    /\ simAB # NoValue
    /\ simA # simB
    /\ Core(simA) = Core(simB)
    /\ Core(simA) # <<>>
    /\ simA # Core(simA)
    /\ simB # Core(simB)
    /\ simAB = FOne

\* C12 as stated: similarity(a, "") = 0.0 and similarity("", a) = 0.0 for
\* every non-empty string a.
EmptyAgainstNonEmptyIsZero ==
    (simA # <<>> /\ simB = <<>>) =>
        /\ simAB # NoValue => simAB = FZero
        /\ simBA # NoValue => simBA = FZero

\* C12, amended: similarity(a, "") = 0.0 and similarity("", a) = 0.0 for
\* every string a that is not empty after trimming; for a of white space
\* only the two strings are equal after trimming and the similarity is 1.0.
EmptyAgainstNonBlankIsZero ==
    (simA # <<>> /\ simB = <<>>) =>
        /\ simAB # NoValue => simAB = (IF Core(simA) = <<>> THEN FOne ELSE FZero)
        /\ simBA # NoValue => simBA = (IF Core(simA) = <<>> THEN FOne ELSE FZero)

\* a padded string holding a two-byte rune has been compared with "" in both
\* orders
EmptyAgainstNonBlankIsZeroWitness ==
    /\ simAB # NoValue /\ simBA # NoValue
    /\ simB = <<>>
    /\ \E i \in 1..Len(simA) : simA[i] = "U"
    /\ simA # Core(simA)
    /\ simAB = FZero /\ simBA = FZero

\* max(len(a), len(b)) with the lengths counted in runes
LongerInRunes(a, b) == IF Len(a) > Len(b) THEN Len(a) ELSE Len(b)

\* C13: for trimmed strings a # b that are both non-empty, similarity(a, b)
\* is 1 - editDistance(a, b) / max(len(a), len(b)), the distance and both
\* lengths counted in single characters (up to the rounding of the float64
\* division), and lies in [0, 1].
SimilarityIsDistanceRatio ==
    (simAB # NoValue /\ Core(simA) # Core(simB) /\ Core(simA) # <<>> /\ Core(simB) # <<>>) =>
        /\ Within(BigMulSmall(simAB, LongerInRunes(Core(simA), Core(simB))),
                  FromInt(LongerInRunes(Core(simA), Core(simB))
                          - ComputeDistance(Core(simA), Core(simB))),
                  Tiny(512 * LongerInRunes(Core(simA), Core(simB))))
        /\ FGeq(simAB, FZero) /\ FGeq(FOne, simAB)

\* what the code computes: the distance is counted in runes, the lengths in
\* bytes; the result lies in [0, 1]
SimilarityIsRunesOverBytes ==
    (simAB # NoValue /\ Core(simA) # Core(simB) /\ Core(simA) # <<>> /\ Core(simB) # <<>>) =>
        /\ simAB = FSub(FOne, FDivInt(FromInt(ComputeDistance(Core(simA), Core(simB))),
                                      IF ByteLen(Core(simA)) > ByteLen(Core(simB))
                                      THEN ByteLen(Core(simA)) ELSE ByteLen(Core(simB))))
        /\ FGeq(simAB, FZero) /\ FGeq(FOne, simAB)

\* C10: CalculateSimilarity is symmetric: once both similarity(a, b) and
\* similarity(b, a) have been computed, for any strings a and b (empty,
\* white-space only and differently padded ones included), they are equal.
SimilaritySymmetric ==
    (simAB # NoValue /\ simBA # NoValue) => simAB = simBA

\* both orders computed for strings of different byte length that are neither
\* equal nor totally different
SimilaritySymmetricWitness ==
    /\ simAB # NoValue /\ simBA # NoValue
    /\ ByteLen(TrimSpace(simA)) # ByteLen(TrimSpace(simB))
    /\ simA # TrimSpace(simA)
    /\ FLess(FZero, simAB) /\ FLess(simAB, FOne)

(***************************************************************************)
(* SpecRepo: AnalyzeRepository. It validates the repository, walks it,     *)
(* classifies the paths, runs processFilesParallel on the kept ones and    *)
(* aggregates what comes back.                                             *)
(***************************************************************************)
skipDirectories ==
    {"vendor", "node_modules", "dist", "build", "target", "__pycache__",
     ".git", ".svn", ".hg", "coverage", "tmp", "temp"}

binaryExtensions ==
    {".png", ".jpg", ".jpeg", ".gif", ".bmp", ".ico", ".svg", ".webp", ".tiff",
     ".exe", ".dll", ".so", ".dylib", ".a", ".o", ".obj", ".lib",
     ".zip", ".tar", ".gz", ".bz2", ".xz", ".7z", ".rar",
     ".mp3", ".mp4", ".avi", ".mov", ".wmv", ".flv", ".wav", ".ogg",
     ".pdf", ".doc", ".docx", ".xls", ".xlsx", ".ppt", ".pptx",
     ".ttf", ".otf", ".woff", ".woff2", ".eot",
     ".db", ".sqlite", ".dat", ".bin", ".pyc", ".pyo", ".class"}

generatedFilePatterns ==
    {".generated.", ".gen.", ".pb.go", ".pb.gw.go", "_generated.", "_gen.",
     ".g.go", "generated_", "gen_", "wire_gen.go", "mock_", "_mock.go"}

\* a relative path as ShouldSkipFile reads it: strings.Split(path, "/"), the
\* lower-cased filepath.Ext, and the pieces of filepath.Base (a pattern is
\* contained in the base name when it is one of its pieces)
PathInfo(path) ==
    CASE path = "vendor/a.go" -> [parts |-> <<"vendor", "a.go">>, ext |-> ".go",
                                  base |-> <<"a", ".go">>]
      [] path = "logo.png"    -> [parts |-> <<path>>, ext |-> ".png", base |-> <<"logo", ".png">>]
      [] path = "mock_a.go"   -> [parts |-> <<path>>, ext |-> ".go", base |-> <<"mock_", "a", ".go">>]
      [] path = "c.txt"       -> [parts |-> <<path>>, ext |-> ".txt", base |-> <<"c", ".txt">>]
      [] OTHER                -> [parts |-> <<path>>, ext |-> ".go", base |-> <<path>>]

ShouldSkipFile(path) ==
    \/ \E i \in DOMAIN PathInfo(path).parts : PathInfo(path).parts[i] \in skipDirectories
    \/ PathInfo(path).ext \in binaryExtensions
    \/ \E i \in DOMAIN PathInfo(path).base : PathInfo(path).base[i] \in generatedFilePatterns

\* the loop of AnalyzeRepository over the walked files (filepath.Rel cannot
\* fail on a path the walk found under the root)
FilesToAnalyze(walked) == SelectSeq(walked, LAMBDA p : ~ShouldSkipFile(p))

\* what filepath.Walk lists, in its lexical order
WalkLists ==
    {<<>>,
     <<"logo.png", "vendor/a.go">>,
     <<"a.go", "logo.png">>,
     <<"b.go", "d.go">>,
     <<"c.txt", "e.go", "mock_a.go">>,
     <<"a.go", "c.txt", "e.go">>}

\* stat: what os.Stat says of <repoPath>/.git; walkErr: filepath.Walk meets a
\* directory or file it cannot read and the callback returns the error
RunInputs == [stat : {"exists", "notExist"}, walkErr : BOOLEAN, walked : WalkLists]

InitRepo ==
    /\ SimIdle
    /\ FileIdle
    /\ AggIdle
    /\ TimelineIdle
    /\ TraceIdle
    /\ ChurnIdle
    /\ runIn \in RunInputs
    /\ runOut = NoValue
    /\ files = <<>>
    /\ numWorkers \in 1..MaxWorkers
    /\ mainPc = "validate"
    /\ spawned = 0
    /\ sent = 0
    /\ workChan = <<>>
    /\ workClosed = FALSE
    /\ resultChan = <<>>
    /\ resultClosed = FALSE
    /\ wg = 0
    /\ wpc = [w \in Workers |-> "idle"]
    /\ wfile = [w \in Workers |-> ""]
    /\ wres = [w \in Workers |-> Nil]
    /\ closerPc = "idle"
    /\ results = <<>>
    /\ warnings = [p \in Paths |-> 0]
    /\ calls = [p \in Paths |-> 0]

Abort(msg) ==
    /\ runOut' = [err |-> msg, analysis |-> Nil]
    /\ mainPc' = "aborted"

\* if _, err := os.Stat(filepath.Join(repoPath, ".git")); os.IsNotExist(err)
Validate ==
    /\ mainPc = "validate"
    /\ IF runIn.stat = "notExist"
       THEN Abort("not a git repository")
       ELSE mainPc' = "find" /\ runOut' = runOut
    /\ UNCHANGED <<simVars, fileVars, aggVars, timelineVars, traceVars, churnVars,
                   runIn, chanVars, files, numWorkers, spawned, sent, results,
                   workerVars>>

\* files, err := findAllFiles(repoPath); if err != nil { return nil, ... }
FindFiles ==
    /\ mainPc = "find"
    /\ IF runIn.walkErr
       THEN Abort("failed to find files")
       ELSE mainPc' = "filter" /\ runOut' = runOut
    /\ UNCHANGED <<simVars, fileVars, aggVars, timelineVars, traceVars, churnVars,
                   runIn, chanVars, files, numWorkers, spawned, sent, results,
                   workerVars>>

\* the classification loop and the test len(filesToAnalyze) == 0
Filter ==
    /\ mainPc = "filter"
    /\ IF FilesToAnalyze(runIn.walked) = <<>>
       THEN Abort("no files to analyze after filtering") /\ files' = files
       ELSE /\ files' = FilesToAnalyze(runIn.walked)
            /\ mainPc' = "spawn"
            /\ runOut' = runOut
    /\ UNCHANGED <<simVars, fileVars, aggVars, timelineVars, traceVars, churnVars,
                   runIn, chanVars, numWorkers, spawned, sent, results, workerVars>>

\* analysis := aggregateResults(fileAnalyses); return analysis, nil
Aggregate ==
    /\ mainPc = "done"
    /\ runIn # NoValue
    /\ runOut' = [err |-> "", analysis |-> aggregateResults(results)]
    /\ mainPc' = "returned"
    /\ UNCHANGED <<simVars, fileVars, aggVars, timelineVars, traceVars, churnVars,
                   runIn, chanVars, files, numWorkers, spawned, sent, results,
                   workerVars>>

NextRepo ==
    \/ Validate
    \/ FindFiles
    \/ Filter
    \/ Next
    \/ Aggregate

SpecRepo == InitRepo /\ [][NextRepo]_vars

InvalidRepository == runIn.stat = "notExist"
ZeroFilesRemain == FilesToAnalyze(runIn.walked) = <<>>
Dispatched(p) == \E i \in DOMAIN files : files[i] = p
ResultOf(p) == \E i \in DOMAIN results : results[i].Path = p

\* C24: AnalyzeRepository aborts with an error, without a result and without
\* starting a worker, when the repository is invalid or no file remains after
\* the classification, and in every other case returns a result and no error.
AbortsOnlyWhenInvalidOrEmpty ==
    runOut # NoValue =>
        IF InvalidRepository \/ ZeroFilesRemain
        THEN runOut.err # "" /\ runOut.analysis = Nil /\ spawned = 0
        ELSE runOut.err = "" /\ runOut.analysis # Nil

\* what the code does: a failed walk is a third reason to abort
AbortsWhenInvalidEmptyOrWalkFails ==
    runOut # NoValue =>
        IF InvalidRepository \/ ZeroFilesRemain \/ runIn.walkErr
        THEN runOut.err # "" /\ runOut.analysis = Nil /\ spawned = 0
        ELSE runOut.err = "" /\ runOut.analysis # Nil

\* a valid repository with files to analyse is abandoned for a walk error
WalkFailureAborts ==
    /\ runOut # NoValue
    /\ ~InvalidRepository
    /\ ~ZeroFilesRemain
    /\ runOut.err = "failed to find files"
    /\ runOut.analysis = Nil

\* every dispatched file fails and the run still returns a result
AllFilesFailedStillReturns ==
    /\ mainPc = "returned"
    /\ files = <<"b.go", "d.go">>
    /\ results = <<>>
    /\ runOut.err = ""
    /\ runOut.analysis # Nil

\* C22: every recoverable failure of the run is surfaced as a warning (a failed
\* file and a file without revision list or historical text each have at least
\* one warning when the run returns), and only an invalid repository or zero
\* files after the classification abort the run.
EveryFailureIsWarned ==
    /\ mainPc = "returned" =>
          \A p \in Paths :
              (Dispatched(p) /\ (~Succeeds(p) \/ Fallback(Repo[p]))) => warnings[p] >= 1
    /\ mainPc = "aborted" => (InvalidRepository \/ ZeroFilesRemain)

\* what the code does: only a file whose analysis failed has a warning
OnlyFailedFilesAreWarned ==
    mainPc = "returned" =>
        \A p \in Paths : warnings[p] = (IF Dispatched(p) /\ ~Succeeds(p) THEN 1 ELSE 0)

\* a file without revision list is reported as its own origin and nothing is said
SilentFallback ==
    /\ mainPc = "returned"
    /\ Dispatched("e.go")
    /\ Fallback(Repo["e.go"])
    /\ ResultOf("e.go")
    /\ \A p \in Paths : warnings[p] = 0

====
